---- MODULE Spec2Model ----
(***************************************************************************)
(* k8deployer: the component/task orchestration engine.                    *)
(*                                                                         *)
(* One cluster's component tree, its task list and the single-threaded     *)
(* executor (the client's io_service) that runs runTasks, processEvent,    *)
(* the HTTP reply handlers and the poll timers.                            *)
(***************************************************************************)
EXTENDS Integers, Sequences, FiniteSets, TLC

(***************************************************************************)
(* Bounds of the model.                                                    *)
(***************************************************************************)
\* number of events the watch stream delivers to Component::onEvent in a run
MaxEvents == 2

\* the timers of one task that are counted
MaxTimers == 2

(***************************************************************************)
(* Enumerations.                                                           *)
(***************************************************************************)
\* Component::Task::TaskState, in declaration order
T_PRE == 0
T_BLOCKED == 1
T_READY == 2
T_EXECUTING == 3
T_WAITING == 4
T_DONE == 5
T_ABORTED == 6
T_FAILED == 7
T_DEPENDENCY_FAILED == 8

\* Component::State, in declaration order
C_CREATING == 0
C_RUNNING == 1
C_DONE == 2
C_FAILED == 3

\* K8ObjectState, the classification a probe reports
K8ObjectStates == {"DONT_EXIST", "INIT", "READY", "DONE", "FAILED"}

\* Engine::config().ns, the namespace every component resolves to
ConfigNs == "default"

(***************************************************************************)
(* Component definitions (the declarative input).  Names are sequences of  *)
(* characters so that the prefix tests of the event closures are real.     *)
(***************************************************************************)
\* a conf_t without entries
NoConf == [k \in {} |-> <<>>]

Cmp(name, kind, parent, rel, depends, replicas) ==
    [name |-> name, kind |-> kind, parent |-> parent, rel |-> rel,
     depends |-> depends, replicas |-> replicas, nsName |-> "",
     args |-> NoConf, defaultArgs |-> NoConf]

NsCmp(name, parent, nsName) ==
    [name |-> name, kind |-> "Namespace", parent |-> parent, rel |-> "AFTER",
     depends |-> <<>>, replicas |-> 0, nsName |-> nsName,
     args |-> NoConf, defaultArgs |-> NoConf]

nR == <<"r">>
nA == <<"a">>
nB == <<"b">>
nC == <<"c">>

Root == 1

\* The trees the model runs: component 1 is the root App; a parent always
\* precedes its children; children are ordered by index.
Trees ==
    << \* 1: one Deployment, replicas 2
       << Cmp(nR, "App", 0, "AFTER", <<>>, 0),
          Cmp(nA, "Deployment", 1, "AFTER", <<>>, 2) >>,
       \* 2: Deployment with child Service (relation AFTER)
       << Cmp(nR, "App", 0, "AFTER", <<>>, 0),
          Cmp(nA, "Deployment", 1, "AFTER", <<>>, 1),
          Cmp(nB, "Service", 2, "AFTER", <<>>, 0) >>,
       \* 3: Deployment with child Service (relation INDEPENDENT)
       << Cmp(nR, "App", 0, "AFTER", <<>>, 0),
          Cmp(nA, "Deployment", 1, "AFTER", <<>>, 1),
          Cmp(nB, "Service", 2, "INDEPENDENT", <<>>, 0) >>,
       \* 4: Deployment with child Service (relation BEFORE)
       << Cmp(nR, "App", 0, "AFTER", <<>>, 0),
          Cmp(nA, "Deployment", 1, "AFTER", <<>>, 1),
          Cmp(nB, "Service", 2, "BEFORE", <<>>, 0) >>,
       \* 5: siblings, Service b depends on Service a
       << Cmp(nR, "App", 0, "AFTER", <<>>, 0),
          Cmp(nA, "Service", 1, "AFTER", <<>>, 0),
          Cmp(nB, "Service", 1, "AFTER", <<nA>>, 0) >>,
       \* 6: siblings, Service b depends on Deployment a
       << Cmp(nR, "App", 0, "AFTER", <<>>, 0),
          Cmp(nA, "Deployment", 1, "AFTER", <<>>, 1),
          Cmp(nB, "Service", 1, "AFTER", <<nA>>, 0) >>,
       \* 7: chain of three tasks: Service a, child b, grandchild c
       << Cmp(nR, "App", 0, "AFTER", <<>>, 0),
          Cmp(nA, "Service", 1, "AFTER", <<>>, 0),
          Cmp(nB, "Service", 2, "AFTER", <<>>, 0),
          Cmp(nC, "Service", 3, "AFTER", <<>>, 0) >>,
       \* 8: one polled Job
       << Cmp(nR, "App", 0, "AFTER", <<>>, 0),
          Cmp(nA, "Job", 1, "AFTER", <<>>, 0) >>,
       \* 9: declared depends form a cycle
       << Cmp(nR, "App", 0, "AFTER", <<>>, 0),
          Cmp(nA, "Service", 1, "AFTER", <<nB>>, 0),
          Cmp(nB, "Service", 1, "AFTER", <<nA>>, 0) >>,
       \* 10: a Namespace component for another namespace, and a Deployment
       << Cmp(nR, "App", 0, "AFTER", <<>>, 0),
          NsCmp(nA, 1, "other"),
          Cmp(nB, "Deployment", 1, "AFTER", <<nA>>, 1) >>,
       \* 11: the auto-maintained Namespace (its name is the tree's namespace)
       << Cmp(nR, "App", 0, "AFTER", <<>>, 0),
          Cmp(nA, "Service", 1, "AFTER", <<>>, 0),
          NsCmp(nB, 1, ConfigNs) >>,
       \* 12: two independent sibling subtrees
       << Cmp(nR, "App", 0, "AFTER", <<>>, 0),
          Cmp(nA, "Deployment", 1, "AFTER", <<>>, 1),
          Cmp(nB, "App", 1, "AFTER", <<>>, 0),
          Cmp(nC, "Service", 3, "AFTER", <<>>, 0) >>,
       \* 13: Deployment with two child Services, the second depends on the first
       << Cmp(nR, "App", 0, "AFTER", <<>>, 0),
          Cmp(nA, "Deployment", 1, "AFTER", <<>>, 1),
          Cmp(nB, "Service", 2, "AFTER", <<>>, 0),
          Cmp(nC, "Service", 2, "AFTER", <<nB>>, 0) >>,
       \* 14: a Deployment and, beside it, a Service with a child Service
       << Cmp(nR, "App", 0, "AFTER", <<>>, 0),
          Cmp(nA, "Deployment", 1, "AFTER", <<>>, 1),
          Cmp(nB, "Service", 1, "AFTER", <<>>, 0),
          Cmp(nC, "Service", 3, "AFTER", <<>>, 0) >>,
       \* 15: a chain of three Services, every child deployed BEFORE its parent
       << Cmp(nR, "App", 0, "AFTER", <<>>, 0),
          Cmp(nA, "Service", 1, "AFTER", <<>>, 0),
          Cmp(nB, "Service", 2, "BEFORE", <<>>, 0),
          Cmp(nC, "Service", 3, "BEFORE", <<>>, 0) >>
    >>

EngineModes == {"DEPLOY", "DELETE"}

VARIABLES
    tree,        \* the component definitions of this run (fixed after Init)
    engineMode,  \* Engine::mode()
    ignoreErrors,\* the ignoreErrors argument the delete tasks pass to sendDelete
    pc,          \* position of the caller: "init", "prepared", "prepfailed",
                 \* "posted" (execute() has posted runTasks), "running"
    prepError,   \* the message of the exception prepare() ended with, or ""
    clusterState,\* Cluster::state()
    tasks,       \* root tasks_: the flat task list (a task is named by its owner)
    hasTasks,    \* tasks_ != nullptr
    deps,        \* Task::dependencies_ of every task
    dependsOn,   \* Component::dependsOn_ of every component
    cstate,      \* Component::state_
    tstate,      \* Task::state_
    queue,       \* handlers posted to the io_service, in posting order
    promise,     \* executionPromise_ of the root: "null" or "installed"
    nfulfil,     \* number of set_value() calls on the root's promise
    doneSinceInstall, \* the root entered DONE while its promise was installed
    podsStarted, \* DeploymentComponent::podsStarted_
    http,        \* per task: number of requests in flight
    nexec,       \* per task: number of HTTP operations issued
    started,     \* per component: startTime is set
    elapsed,     \* per component: elapsed is set
    pollTimer,   \* per task: the timers created by schedulePoll and not yet fired
    probing,     \* per task: number of probe GETs in flight
    nevents,     \* events delivered so far
    effectiveArgs, \* Component::effectiveArgs_ of every component
    json,        \* the text handed to expandVariables
    variables,   \* variables_t: the variable map handed to expandVariables
    environ,     \* the process environment getenv reads
    expanded,    \* what expandVariables returned, or the exception it threw
    values,      \* the text handed to getArgAsStringList
    rval,        \* what getArgAsStringList returned
    clusterArg,  \* the argument of the Cluster constructor
    kubeconfig,  \* Cluster::kubeconfig_
    clusterVariables \* Cluster::variables_

listVars == <<values, rval>>
clusterVars == <<clusterArg, kubeconfig, clusterVariables>>
textVars == <<json, variables, environ, expanded, listVars, clusterVars>>
confVars == <<tree, engineMode, ignoreErrors, effectiveArgs, textVars>>
vars == <<tree, engineMode, ignoreErrors, pc, prepError, clusterState, tasks,
          hasTasks, deps, dependsOn, cstate, tstate, queue, promise, nfulfil,
          doneSinceInstall, podsStarted, http, nexec, started, elapsed,
          pollTimer, probing, nevents, effectiveArgs, json, variables,
          environ, expanded, values, rval, clusterArg, kubeconfig,
          clusterVariables>>

(***************************************************************************)
(* The component tree.                                                     *)
(***************************************************************************)
NComp == Len(tree)
Comps == 1..NComp
Parent(c) == tree[c].parent
IsRoot(c) == Parent(c) = 0
KindOf(c) == tree[c].kind

\* Component::mode_, fixed by the constructor from Engine::mode()
Mode == IF engineMode = "DELETE" THEN "REMOVE" ELSE "CREATE"

\* children_ of c, in insertion order
Children(c) == SelectSeq([i \in 1..NComp |-> i], LAMBDA k : Parent(k) = c)

RECURSIVE ConcatAll(_)
ConcatAll(ss) == IF ss = <<>> THEN <<>> ELSE Head(ss) \o ConcatAll(Tail(ss))

\* walkAndExecuteFn: the component itself, then its children's subtrees
RECURSIVE Walk(_)
Walk(c) ==
    LET ch == Children(c)
    IN <<c>> \o ConcatAll([i \in 1..Len(ch) |-> Walk(ch[i])])

\* forAllComponents visits getRoot()'s walk
AllComponents == Walk(Root)

\* getNamespace(): no component overrides it, so it resolves at the root
GetNamespace(c) == ConfigNs

\* no text was expanded
NoExpansion == [str |-> <<>>, err |-> ""]

\* getArgAsStringList was not called
NoList == values = <<>> /\ rval = <<>>

\* the cluster was constructed without an argument of interest
NoCluster ==
    /\ clusterArg = <<>>
    /\ kubeconfig = <<>>
    /\ clusterVariables = NoConf

NoExpand ==
    /\ json = <<>>
    /\ variables = NoConf
    /\ environ = NoConf
    /\ expanded = NoExpansion

NoText == NoExpand /\ NoList /\ NoCluster

\* Component::getPathToRoot: the component, its parent, ..., the root
RECURSIVE GetPathToRoot(_)
GetPathToRoot(c) ==
    IF IsRoot(c) THEN <<c>> ELSE <<c>> \o GetPathToRoot(Parent(c))

\* the keys whose values mergeArgs concatenates
Accumulated == {"pod.args", "pod.env"}

\* mergeArgs: m += " " unless m is empty, then m += v
Accumulate(m, v) == IF m # <<>> THEN m \o <<" ">> \o v ELSE m \o v

\* the value of a key that may be missing: merged[k] inserts an empty string
AtOrEmpty(merged, k) == IF k \in DOMAIN merged THEN merged[k] ELSE <<>>

\* a default replaces the value merged so far
MergeNode_Override(merged, d) ==
    [k \in DOMAIN merged \cup DOMAIN d |->
        IF k \notin DOMAIN d THEN merged[k]
        ELSE IF k \in Accumulated THEN Accumulate(AtOrEmpty(merged, k), d[k])
        ELSE d[k]]

\* mergeArgs, the loop over the defaultArgs d of one node of the path
MergeNode(merged, d) ==
    [k \in DOMAIN merged \cup DOMAIN d |->
        IF k \notin DOMAIN d THEN merged[k]
        ELSE IF k \in Accumulated THEN Accumulate(AtOrEmpty(merged, k), d[k])
        ELSE IF k \in DOMAIN merged THEN merged[k]
        ELSE d[k]]

\* mergeArgs, the loop over the path
RECURSIVE MergePath(_, _, _)
MergePath(merged, path, i) ==
    IF i > Len(path) THEN merged
    ELSE MergePath(MergeNode(merged, tree[path[i]].defaultArgs), path, i + 1)

\* Component::mergeArgs
MergeArgs(c) == MergePath(tree[c].args, GetPathToRoot(c), 1)

\* the kinds that contribute a task; an App only groups its children
HasTask(c) == KindOf(c) # "App"

\* a task is named by the component that owns it
Owner(t) == t

\* addDeploymentTasks / addRemovementTasks: a component pushes its own task,
\* then recurses into its children
RECURSIVE AddTasks(_)
AddTasks(c) ==
    LET ch == Children(c)
    IN (IF HasTask(c) THEN <<c>> ELSE <<>>)
       \o ConcatAll([i \in 1..Len(ch) |-> AddTasks(ch[i])])

InSeq(x, s) == \E i \in 1..Len(s) : s[i] = x

\* Task::addDependency: append unless already there
TaskAddDependency(d, t, on) ==
    IF InSeq(on, d[t]) THEN d ELSE [d EXCEPT ![t] = Append(@, on)]

\* the inner loops of prepareTasks: every task of the parent component
RECURSIVE LinkToParent(_, _, _, _, _)
LinkToParent(d, ts, t, childDependsOnParent, j) ==
    IF j > Len(ts) THEN d
    ELSE LET pt == ts[j]
         IN IF Owner(pt) = Parent(Owner(t))
            THEN LinkToParent(IF childDependsOnParent
                              THEN TaskAddDependency(d, t, pt)
                              ELSE TaskAddDependency(d, pt, t),
                              ts, t, childDependsOnParent, j + 1)
            ELSE LinkToParent(d, ts, t, childDependsOnParent, j + 1)

\* the relation is swapped whatever reverseDependencies says
EffectiveRelation_Mut(rel, reverseDependencies) ==
    IF rel = "AFTER" THEN "BEFORE"
    ELSE IF rel = "BEFORE" THEN "AFTER" ELSE rel

\* the relation prepareTasks uses for a task
EffectiveRelation(rel, reverseDependencies) ==
    IF reverseDependencies
    THEN (IF rel = "AFTER" THEN "BEFORE"
          ELSE IF rel = "BEFORE" THEN "AFTER" ELSE rel)
    ELSE rel

\* prepareTasks, the edge assignment
RECURSIVE SetTaskDependencies(_, _, _, _)
SetTaskDependencies(d, ts, reverseDependencies, i) ==
    IF i > Len(ts) THEN d
    ELSE LET t == ts[i]
             rel == EffectiveRelation(tree[Owner(t)].rel, reverseDependencies)
             d1 == IF IsRoot(Owner(t)) \/ rel = "INDEPENDENT" THEN d
                   ELSE LinkToParent(d, ts, t, rel = "AFTER", 1)
         IN SetTaskDependencies(d1, ts, reverseDependencies, i + 1)

NoTaskDeps == [c \in Comps |-> <<>>]

\* the edges are set in every mode
PrepareTaskEdges_Mut(ts, reverseDependencies) ==
    SetTaskDependencies(NoTaskDeps, ts, reverseDependencies, 1)

\* prepareTasks, "Set dependencies": skipped in DELETE mode
PrepareTaskEdges(ts, reverseDependencies) ==
    IF engineMode # "DELETE"
    THEN SetTaskDependencies(NoTaskDeps, ts, reverseDependencies, 1)
    ELSE NoTaskDeps

SeqRange(s) == {s[i] : i \in 1..Len(s)}

\* the tasks reachable from a task over dependencies_
RECURSIVE TaskDepsClosure(_, _, _)
TaskDepsClosure(d, frontier, seen) ==
    LET next == UNION {SeqRange(d[t]) : t \in frontier}
    IN IF next \subseteq seen THEN seen
       ELSE TaskDepsClosure(d, next \ seen, seen \cup next)

\* some task is in its own transitive dependency closure
TaskGraphCircular(d, ts) ==
    \E i \in 1..Len(ts) : ts[i] \in TaskDepsClosure(d, {ts[i]}, {})

\* Task::addAllDependencies, the results of the calls on the dependencies
\* put together
MergeDependencies(direct, rs) ==
    [tasks |-> direct \cup UNION {rs[i].tasks : i \in DOMAIN rs},
     overflow |-> \E i \in DOMAIN rs : rs[i].overflow]

\* Task::addAllDependencies: insert every dependency and recurse into it.
\* There is no test for a task that was already visited, so on a cycle the
\* recursion does not end: a call nested deeper than there are tasks is on
\* a cycle and exhausts the stack.
RECURSIVE AddAllDependencies(_, _, _)
AddAllDependencies(d, t, depth) ==
    IF depth > Len(d) THEN [tasks |-> {}, overflow |-> TRUE]
    ELSE MergeDependencies(
             SeqRange(d[t]),
             [i \in 1..Len(d[t]) |-> AddAllDependencies(d, d[t][i], depth + 1)])

\* prepareTasks, the test of one task against its allDeps
CheckTask(t, r) ==
    IF r.overflow THEN "stack overflow"
    ELSE IF t \in r.tasks THEN "Circular dependency"
    ELSE ""

RECURSIVE CycleCheck(_, _, _)

CycleCheckStep(res, d, ts, i) ==
    IF res # "" THEN res ELSE CycleCheck(d, ts, i + 1)

\* prepareTasks, the check for circular dependencies: "" when it passes,
\* else how it ends
CycleCheck(d, ts, i) ==
    IF i > Len(ts) THEN ""
    ELSE CycleCheckStep(CheckTask(ts[i], AddAllDependencies(d, ts[i], 1)),
                        d, ts, i)

(***************************************************************************)
(* Component dependencies (dependsOn_).  A scan result is a record         *)
(* [on |-> dependsOn_ of every component, err |-> the exception message]   *)
(* and nothing is added once an exception was thrown.                      *)
(***************************************************************************)
\* addDependenciesRecursively: everything reachable over dependsOn_
RECURSIVE DependsClosure(_, _, _)
DependsClosure(on, frontier, seen) ==
    LET next == UNION {SeqRange(on[c]) : c \in frontier}
    IN IF next \subseteq seen THEN seen
       ELSE DependsClosure(on, next \ seen, seen \cup next)

\* the cycle test looks only at the direct edge dst -> src
AddDependency_Direct(st, src, dst) ==
    IF st.err # "" THEN st
    ELSE IF dst = src THEN [st EXCEPT !.err = "Cannot depend on myself!"]
    ELSE IF InSeq(src, st.on[dst])
         THEN [st EXCEPT !.err = "Circular dependency"]
    ELSE IF InSeq(dst, st.on[src]) THEN st
    ELSE [st EXCEPT !.on[src] = Append(@, dst)]

\* an edge that is already there is appended again
AddDependency_Dup(st, src, dst) ==
    IF st.err # "" THEN st
    ELSE IF dst = src THEN [st EXCEPT !.err = "Cannot depend on myself!"]
    ELSE IF src \in DependsClosure(st.on, {dst}, {})
         THEN [st EXCEPT !.err = "Circular dependency"]
    ELSE [st EXCEPT !.on[src] = Append(@, dst)]

\* src.addDependency(dst)
AddDependency(st, src, dst) ==
    IF st.err # "" THEN st
    ELSE IF dst = src THEN [st EXCEPT !.err = "Cannot depend on myself!"]
    ELSE IF src \in DependsClosure(st.on, {dst}, {})
         THEN [st EXCEPT !.err = "Circular dependency"]
    ELSE IF InSeq(dst, st.on[src]) THEN st
    ELSE [st EXCEPT !.on[src] = Append(@, dst)]

\* nsComponents: metadata name -> Namespace component (the last one walked wins)
NsComponent(nsName) ==
    LET w == AllComponents
        hits == {i \in 1..Len(w) : KindOf(w[i]) = "Namespace"
                                   /\ tree[w[i]].nsName = nsName}
    IN IF hits = {} THEN 0
       ELSE w[CHOOSE i \in hits : \A j \in hits : j <= i]

\* scanDependencies, the root's namespace pass over all components
RECURSIVE ScanNamespaces(_, _, _)
ScanNamespaces(st, reverse, i) ==
    IF i > Len(AllComponents) THEN st
    ELSE LET c == AllComponents[i]
             ns == NsComponent(GetNamespace(c))
             st1 == IF GetNamespace(c) # "" /\ ns # 0
                    THEN (IF reverse THEN AddDependency(st, ns, c)
                          ELSE AddDependency(st, c, ns))
                    ELSE st
         IN ScanNamespaces(st1, reverse, i + 1)

RECURSIVE ScanName(_, _, _, _, _)

\* the edge runs from the declaring component to the named one in both modes
ScanName_Mut(st, reverse, self, depName, i) ==
    IF i > Len(AllComponents) THEN st
    ELSE LET c == AllComponents[i]
             st1 == IF depName = tree[c].name
                    THEN AddDependency(st, self, c)
                    ELSE st
         IN ScanName(st1, reverse, self, depName, i + 1)

\* scanDependencies, one name of depends against all components
ScanName(st, reverse, self, depName, i) ==
    IF i > Len(AllComponents) THEN st
    ELSE LET c == AllComponents[i]
             st1 == IF depName = tree[c].name
                    THEN (IF reverse THEN AddDependency(st, c, self)
                          ELSE AddDependency(st, self, c))
                    ELSE st
         IN ScanName(st1, reverse, self, depName, i + 1)

RECURSIVE ScanDepends(_, _, _, _)

\* the declared depends are scanned in CREATE mode only
ScanDepends_Mut(st, reverse, self, k) ==
    IF reverse \/ k > Len(tree[self].depends) THEN st
    ELSE ScanDepends(ScanName(st, reverse, self, tree[self].depends[k], 1),
                     reverse, self, k + 1)

\* scanDependencies, the loop over the declared depends
ScanDepends(st, reverse, self, k) ==
    IF k > Len(tree[self].depends) THEN st
    ELSE ScanDepends(ScanName(st, reverse, self, tree[self].depends[k], 1),
                     reverse, self, k + 1)

RECURSIVE ScanDependencies(_, _)
RECURSIVE ScanChildren(_, _, _)
ScanChildren(st, ch, i) ==
    IF i > Len(ch) THEN st
    ELSE ScanChildren(ScanDependencies(st, ch[i]), ch, i + 1)

ScanDependencies(st, c) ==
    LET reverse == Mode = "REMOVE"
        st1 == IF IsRoot(c) THEN ScanNamespaces(st, reverse, 1) ELSE st
        st2 == ScanDepends(st1, reverse, c, 1)
    IN ScanChildren(st2, Children(c), 1)

NoDependsOn == [on |-> [c \in Comps |-> <<>>], err |-> ""]

(***************************************************************************)
(* The mutable state the handlers work on, as one record, so that a        *)
(* handler is a function from state to state.  passes counts the passes    *)
(* of the runTasks that is running; it is not part of the program state.   *)
(***************************************************************************)
World ==
    [cs |-> cstate, ts |-> tstate, q |-> queue, prom |-> promise,
     nful |-> nfulfil, dsi |-> doneSinceInstall, pods |-> podsStarted,
     http |-> http, nexec |-> nexec, started |-> started,
     elapsed |-> elapsed, timer |-> pollTimer, probing |-> probing,
     passes |-> 0]

Min(a, b) == IF a < b THEN a ELSE b

NoEvent == [kind |-> "", objName |-> <<>>, evName |-> <<>>, ns |-> "",
            reason |-> ""]
RunTasksItem == [h |-> "runTasks", t |-> 0, e |-> NoEvent]
EventItem(e) == [h |-> "processEvent", t |-> 0, e |-> e]
PollItem(t) == [h |-> "poll", t |-> t, e |-> NoEvent]

\* io_service.post(handler).  A runTasks posted right behind a runTasks that
\* is still waiting is not queued again: runTasks ends in a pass without
\* change, so running it twice in a row equals running it once.
Post(w, item) ==
    IF item = RunTasksItem /\ w.q # <<>> /\ w.q[Len(w.q)] = item THEN w
    ELSE [w EXCEPT !.q = Append(@, item)]

\* Component::isBlockedOnDependency
IsBlockedOnDependency(w, c) ==
    /\ Mode = "CREATE"
    /\ \E i \in 1..Len(dependsOn[c]) : w.cs[dependsOn[c][i]] # C_DONE

\* Component::calculateElapsed
CalculateElapsed(w, c) ==
    IF w.started[c] THEN [w EXCEPT !.elapsed[c] = TRUE] ELSE w

\* Component::setState, the completion of the promise
FulfilPromise(w, c) ==
    IF c = Root /\ w.prom = "installed"
    THEN [w EXCEPT !.prom = "null", !.nful = Min(@ + 1, 2)]
    ELSE w

\* the promise is completed on FAILED as well
OnDone_Mut(w, c, state) ==
    IF state >= C_DONE THEN FulfilPromise(CalculateElapsed(w, c), c) ELSE w

\* Component::setState, the part that runs when the new state is DONE
OnDone(w, c, state) ==
    IF state = C_DONE THEN FulfilPromise(CalculateElapsed(w, c), c) ELSE w

\* Component::setState, the part that runs when the new state is FAILED
OnFailed(w, c, state) ==
    IF state = C_FAILED THEN CalculateElapsed(w, c) ELSE w

\* Component::setState, the assignment of state_ (doneSinceInstall records
\* that the root entered DONE after execute() installed its promise)
AssignState(w, c, state) ==
    [w EXCEPT !.cs[c] = state,
              !.dsi = @ \/ (c = Root /\ state = C_DONE /\ pc = "running")]

RECURSIVE CompSetState(_, _, _)
RECURSIVE CompEvaluate(_, _)
RECURSIVE EvalTasks(_, _, _, _, _, _)

\* Component::scheduleRunTasks
ScheduleRunTasks(w, c) ==
    IF clusterState # "EXECUTING" THEN w
    ELSE Post(CompEvaluate(w, c), RunTasksItem)

\* Component::setState, after the assignment: tell the parent
NotifyParent(w, c, state) ==
    IF state >= C_RUNNING /\ ~IsRoot(c)
    THEN ScheduleRunTasks(CompEvaluate(w, Parent(c)), c)
    ELSE w

\* Component::setState
CompSetState(w, c, state) ==
    IF state = w.cs[c] THEN w
    ELSE NotifyParent(
             AssignState(OnFailed(OnDone(w, c, state), c, state), c, state),
             c, state)

\* Component::evaluate, the loop over the tasks of this component; the
\* result carries allDone, numTasks and newState out of the loop
EvalTasks(w, c, i, allDone, numTasks, newState) ==
    IF i > Len(tasks)
    THEN [w |-> w, allDone |-> allDone, numTasks |-> numTasks,
          newState |-> newState]
    ELSE IF Owner(tasks[i]) # c
    THEN EvalTasks(w, c, i + 1, allDone, numTasks, newState)
    ELSE IF w.ts[tasks[i]] > T_DONE /\ w.cs[c] < C_FAILED
    THEN [w |-> CompSetState(w, c, C_FAILED),
          allDone |-> FALSE, numTasks |-> numTasks + 1,
          newState |-> IF w.ts[tasks[i]] >= T_BLOCKED /\ w.cs[c] = C_CREATING
                       THEN C_RUNNING ELSE newState]
    ELSE EvalTasks(w, c, i + 1, allDone /\ w.ts[tasks[i]] = T_DONE,
                   numTasks + 1,
                   IF w.ts[tasks[i]] >= T_BLOCKED /\ w.cs[c] = C_CREATING
                   THEN C_RUNNING ELSE newState)

\* Component::evaluate, the code after the loop over the tasks
EvalChildren(r, c) ==
    LET ch == Children(c)
        childFailed == \E i \in 1..Len(ch) : r.w.cs[ch[i]] > C_DONE
        blockedOnChild == \E i \in 1..Len(ch) : r.w.cs[ch[i]] # C_DONE
    IN IF r.allDone /\ childFailed THEN CompSetState(r.w, c, C_FAILED)
       ELSE IF r.allDone /\ IsBlockedOnDependency(r.w, c) THEN r.w
       ELSE IF r.allDone /\ ~blockedOnChild THEN CompSetState(r.w, c, C_DONE)
       ELSE IF r.numTasks > 0 /\ r.newState > r.w.cs[c]
       THEN CompSetState(r.w, c, r.newState)
       ELSE r.w

\* Component::evaluate
CompEvaluate(w, c) ==
    IF ~hasTasks THEN w
    ELSE EvalChildren(EvalTasks(w, c, 1, TRUE, 0, C_CREATING), c)

\* Component::startElapsedTimer
StartElapsedTimer(w, c) == [w EXCEPT !.started[c] = TRUE]

\* Component::Task::setState, the assignment and the elapsed timer
TaskAssignState(w, t, state) ==
    IF w.ts[t] # state /\ state = T_EXECUTING
    THEN StartElapsedTimer([w EXCEPT !.ts[t] = state], Owner(t))
    ELSE [w EXCEPT !.ts[t] = state]

\* Component::Task::setState
TaskSetState(w, t, state, scheduleRunTasks) ==
    IF w.ts[t] # state /\ scheduleRunTasks
    THEN ScheduleRunTasks(TaskAssignState(w, t, state), Owner(t))
    ELSE TaskAssignState(w, t, state)

\* only a DEPENDENCY_FAILED dependency counts as failed
DependencyFailed_Mut(w, t) ==
    \E i \in 1..Len(deps[t]) : w.ts[deps[t][i]] > T_FAILED

\* Task::evaluate, the scan of dependencies_: some dependency failed
DependencyFailed(w, t) ==
    \E i \in 1..Len(deps[t]) : w.ts[deps[t][i]] >= T_ABORTED

\* Task::evaluate, the scan of dependencies_: some dependency is not DONE
DependencyBlocked(w, t) ==
    \E i \in 1..Len(deps[t]) : w.ts[deps[t][i]] # T_DONE

\* Task::evaluate, the BLOCKED branch after component().evaluate()
EvaluateBlocked(w, t, changed) ==
    IF Mode = "CREATE" /\ IsBlockedOnDependency(w, Owner(t))
    THEN [w |-> w, changed |-> changed]
    ELSE IF DependencyFailed(w, t)
    THEN [w |-> TaskSetState(w, t, T_DEPENDENCY_FAILED, FALSE),
          changed |-> TRUE]
    ELSE IF ~DependencyBlocked(w, t)
    THEN [w |-> CompEvaluate(TaskSetState(w, t, T_READY, FALSE), Owner(t)),
          changed |-> TRUE]
    ELSE [w |-> w, changed |-> changed]

\* Task::evaluate, the PRE branch
LeavePre(w, t) == IF w.ts[t] = T_PRE THEN [w EXCEPT !.ts[t] = T_BLOCKED] ELSE w

\* Task::evaluate; the result is [w |-> the state, changed |-> return value]
TaskEvaluate(w, t) ==
    IF w.ts[t] \notin {T_PRE, T_BLOCKED}
    THEN [w |-> w, changed |-> FALSE]
    ELSE EvaluateBlocked(IF Mode = "CREATE"
                         THEN CompEvaluate(LeavePre(w, t), Owner(t))
                         ELSE LeavePre(w, t),
                         t, w.ts[t] = T_PRE)

(***************************************************************************)
(* The task closures (Task::fn_) and the HTTP operations they start.       *)
(***************************************************************************)
\* Task::isMonitoring
IsMonitoring(w, t) == w.ts[t] = T_WAITING

\* Task::isDone
TaskIsDone(w, t) == w.ts[t] >= T_DONE

\* Component::isDone
CompIsDone(w, c) == w.cs[c] = C_DONE

\* Engine::client().Process(...): the request is issued; its reply handler
\* runs later on the executor
StartRequest(w, t) ==
    [w EXCEPT !.http[t] = Min(@ + 1, 2), !.nexec[t] = Min(@ + 1, 2)]

\* Task::schedulePoll posts the lambda that arms the timer
SchedulePoll(w, t) == Post(w, PollItem(t))

\* std::string::substr(0, key.size()) == key
StartsWith(str, key) ==
    IF Len(str) < Len(key) THEN str = key
    ELSE SubSeq(str, 1, Len(key)) = key

\* the reason of the event is not looked at
EventMatches_Mut(c, e) ==
    LET key == tree[c].name \o <<"-">>
    IN /\ e.kind = "Pod"
       /\ StartsWith(e.objName, key)
       /\ e.ns = ConfigNs
       /\ StartsWith(e.evName, key)

\* the test of the Deployment closure on an event
EventMatches(c, e) ==
    LET key == tree[c].name \o <<"-">>
    IN /\ e.kind = "Pod"
       /\ StartsWith(e.objName, key)
       /\ e.ns = ConfigNs
       /\ StartsWith(e.evName, key)
       /\ e.reason = "Created"

\* a task that waits is deployed again
DeploymentExecute_Mut(w, t) ==
    IF w.ts[t] \in {T_READY, T_WAITING}
    THEN TaskSetState(StartRequest(TaskSetState(w, t, T_EXECUTING, TRUE), t),
                      t, T_WAITING, TRUE)
    ELSE w

\* the Deployment closure, "Execution?"
DeploymentExecute(w, t) ==
    IF w.ts[t] = T_READY
    THEN TaskSetState(StartRequest(TaskSetState(w, t, T_EXECUTING, TRUE), t),
                      t, T_WAITING, TRUE)
    ELSE w

\* the Deployment closure, a pod of this deployment was created
PodStarted(w, t) ==
    IF w.pods[Owner(t)] >= tree[Owner(t)].replicas
    THEN CompSetState(TaskSetState(w, t, T_DONE, TRUE), Owner(t), C_DONE)
    ELSE w

\* the Deployment closure, "Monitoring?"
DeploymentMonitor(w, t, e) ==
    IF IsMonitoring(w, t) /\ e # NoEvent /\ EventMatches(Owner(t), e)
    THEN PodStarted([w EXCEPT !.pods[Owner(t)] = @ + 1], t)
    ELSE w

\* the closure DeploymentComponent::addTasks installs
DeploymentFn(w, t, e) ==
    TaskEvaluate(DeploymentMonitor(DeploymentExecute(w, t), t, e), t).w

\* the Service closure, "Execution?"
ServiceExecute(w, t) ==
    IF w.ts[t] = T_READY
    THEN StartRequest(TaskSetState(w, t, T_EXECUTING, TRUE), t)
    ELSE w

\* the closure ServiceComponent::addTasks installs
ServiceFn(w, t, e) == TaskEvaluate(ServiceExecute(w, t), t).w

\* the closure of a polled kind: issue the POST, wait, and poll
PolledExecute(w, t) ==
    IF w.ts[t] = T_READY
    THEN SchedulePoll(
             TaskSetState(
                 StartRequest(TaskSetState(w, t, T_EXECUTING, TRUE), t),
                 t, T_WAITING, TRUE), t)
    ELSE w

PolledFn(w, t, e) == TaskEvaluate(PolledExecute(w, t), t).w

\* a polled kind polls for the object to disappear
PollIfPolled(w, t) ==
    IF KindOf(Owner(t)) = "Job" THEN SchedulePoll(w, t) ELSE w

\* the closure of a delete task: issue sendDelete
RemoveExecute(w, t) ==
    IF w.ts[t] = T_READY
    THEN PollIfPolled(
             StartRequest(TaskSetState(w, t, T_EXECUTING, TRUE), t), t)
    ELSE w

RemoveFn(w, t, e) == TaskEvaluate(RemoveExecute(w, t), t).w

\* fn_(task, event) by mode and kind
TaskFn(w, t, e) ==
    IF Mode = "REMOVE" THEN RemoveFn(w, t, e)
    ELSE IF KindOf(Owner(t)) = "Deployment" THEN DeploymentFn(w, t, e)
    ELSE IF KindOf(Owner(t)) = "Job" THEN PolledFn(w, t, e)
    ELSE ServiceFn(w, t, e)

\* Task::execute
TaskExecute(w, t) == TaskFn(w, t, NoEvent)

\* Task::onEvent: the state after the closure and whether state_ changed
StateChanged(before, w, t) == [w |-> w, changed |-> w.ts[t] # before]

TaskOnEvent(w, t, e) == StateChanged(w.ts[t], TaskFn(w, t, e), t)

(***************************************************************************)
(* The handlers the executor runs.                                         *)
(***************************************************************************)
RECURSIVE RunPass(_, _, _)

\* Component::runTasks, the body of the loop over the tasks
RunStep(r, i, again) ==
    IF r.w.ts[tasks[i]] = T_READY
    THEN RunPass(TaskExecute(r.w, tasks[i]), i + 1, TRUE)
    ELSE RunPass(r.w, i + 1, again \/ r.changed)

\* Component::runTasks, one pass over the task list; the result is
\* [w |-> the state, again |-> some task changed or was executed]
RunPass(w, i, again) ==
    IF i > Len(tasks) THEN [w |-> w, again |-> again]
    ELSE RunStep(TaskEvaluate(w, tasks[i]), i, again)

RECURSIVE RunLoop(_)

\* the loop ends after its first pass
RunAgain_Mut(r) == r.w

\* Component::runTasks, the end of a pass
RunAgain(r) == IF r.again THEN RunLoop(r.w) ELSE r.w

\* the loop also stops when the root is FAILED
RunLoop_Mut(w) ==
    IF clusterState = "EXECUTING" /\ w.cs[Root] < C_DONE
    THEN RunAgain(RunPass([w EXCEPT !.passes = @ + 1], 1, FALSE))
    ELSE w

\* Component::runTasks, the loop that repeats while a pass changed something
RunLoop(w) ==
    IF clusterState = "EXECUTING" /\ ~CompIsDone(w, Root)
    THEN RunAgain(RunPass([w EXCEPT !.passes = @ + 1], 1, FALSE))
    ELSE w

\* Component::runTasks
RunTasks(w) ==
    IF ~hasTasks \/ clusterState # "EXECUTING" THEN w ELSE RunLoop(w)

RECURSIVE EventPass(_, _, _, _)

EventStep(r, e, i, changed) == EventPass(r.w, e, i + 1, changed \/ r.changed)

\* Component::processEvent, the loop over the tasks
EventPass(w, e, i, changed) ==
    IF i > Len(tasks) THEN [w |-> w, changed |-> changed]
    ELSE EventStep(TaskOnEvent(w, tasks[i], e), e, i, changed)

\* Component::processEvent, the end: post runTasks when a task changed
EventDone(r) == IF r.changed THEN Post(r.w, RunTasksItem) ELSE r.w

\* Component::processEvent
ProcessEvent(w, e) == EventDone(EventPass(w, e, 1, FALSE))

\* a timer is created whether or not one is pending
PollLambda_Mut(w, t) == [w EXCEPT !.timer[t] = Min(@ + 1, MaxTimers)]

\* Task::schedulePoll, the posted lambda: arm the timer unless one is pending
PollLambda(w, t) ==
    IF w.timer[t] = 0 THEN [w EXCEPT !.timer[t] = 1] ELSE w

\* a removal classifies the probe result as a deployment does
ProbeCallback_Mut(w, t, state) ==
    IF state = "FAILED"
    THEN ScheduleRunTasks(TaskSetState(w, t, T_FAILED, TRUE), Owner(t))
    ELSE IF state \in {"DONT_EXIST", "INIT"}
    THEN SchedulePoll(w, t)
    ELSE ScheduleRunTasks(TaskSetState(w, t, T_DONE, TRUE), Owner(t))

\* Task::schedulePoll, the callback given to probe()
ProbeCallback(w, t, state) ==
    IF Mode = "REMOVE"
    THEN IF state \in {"DONT_EXIST", "DONE"}
         THEN ScheduleRunTasks(TaskSetState(w, t, T_DONE, TRUE), Owner(t))
         ELSE IF state = "FAILED"
         THEN ScheduleRunTasks(TaskSetState(w, t, T_FAILED, TRUE), Owner(t))
         ELSE SchedulePoll(w, t)
    ELSE IF state = "FAILED"
         THEN ScheduleRunTasks(TaskSetState(w, t, T_FAILED, TRUE), Owner(t))
         ELSE IF state \in {"DONT_EXIST", "INIT"}
         THEN SchedulePoll(w, t)
         ELSE ScheduleRunTasks(TaskSetState(w, t, T_DONE, TRUE), Owner(t))

\* a successful POST ends the Deployment task
DeploymentReply_Mut(w, t, ok) ==
    IF ok THEN TaskSetState(w, t, T_DONE, TRUE)
    ELSE CompSetState(TaskSetState(w, t, T_FAILED, TRUE), Owner(t), C_FAILED)

\* DeploymentComponent::doDeploy, the code after Execute()
DeploymentReply(w, t, ok) ==
    IF ok THEN w
    ELSE CompSetState(TaskSetState(w, t, T_FAILED, TRUE), Owner(t), C_FAILED)

\* ServiceComponent::doDeploy, the guarded setState of the component
SetIfRunning(w, c, state) ==
    IF w.cs[c] = C_RUNNING THEN CompSetState(w, c, state) ELSE w

\* ServiceComponent::doDeploy, the code after Execute()
ServiceReply(w, t, ok) ==
    IF ok
    THEN SetIfRunning(TaskSetState(w, t, T_DONE, TRUE), Owner(t), C_DONE)
    ELSE SetIfRunning(TaskSetState(w, t, T_FAILED, TRUE), Owner(t), C_FAILED)

\* ignoreErrors is not looked at: every failure but a 404 fails the task
DeleteReply_Mut(w, t, outcome) ==
    IF outcome \in {"ok", "404"} THEN TaskSetState(w, t, T_DONE, TRUE)
    ELSE CompSetState(TaskSetState(w, t, T_FAILED, TRUE), Owner(t), C_FAILED)

\* Component::sendDelete, the code after Execute(); outcome is "ok" (2xx),
\* "404" or "error" (another HTTP error, or an exception)
DeleteReply(w, t, outcome) ==
    IF outcome \in {"ok", "404"} THEN TaskSetState(w, t, T_DONE, TRUE)
    ELSE IF ignoreErrors THEN TaskSetState(w, t, T_DONE, TRUE)
    ELSE CompSetState(TaskSetState(w, t, T_FAILED, TRUE), Owner(t), C_FAILED)

\* the reply handler of the request task t issued
ReplyHandler(w, t, outcome) ==
    IF Mode = "REMOVE" THEN DeleteReply(w, t, outcome)
    ELSE IF KindOf(Owner(t)) \in {"Deployment", "Job"}
    THEN DeploymentReply(w, t, outcome = "ok")
    ELSE ServiceReply(w, t, outcome = "ok")

ReplyOutcomes == IF Mode = "REMOVE" THEN {"ok", "404", "error"}
                 ELSE {"ok", "error"}

(***************************************************************************)
(* The state machine.                                                      *)
(***************************************************************************)
Commit(w) ==
    /\ cstate' = w.cs
    /\ tstate' = w.ts
    /\ queue' = w.q
    /\ promise' = w.prom
    /\ nfulfil' = w.nful
    /\ doneSinceInstall' = w.dsi
    /\ podsStarted' = w.pods
    /\ http' = w.http
    /\ nexec' = w.nexec
    /\ started' = w.started
    /\ elapsed' = w.elapsed
    /\ pollTimer' = w.timer
    /\ probing' = w.probing

structVars == <<tasks, hasTasks, deps, dependsOn, prepError>>

\* the state after populateTree: every component constructed and init() run
Init ==
    /\ tree \in SeqRange(Trees)
    /\ engineMode \in EngineModes
    /\ ignoreErrors \in (IF engineMode = "DELETE" THEN BOOLEAN ELSE {FALSE})
    /\ pc = "init"
    /\ prepError = ""
    /\ clusterState = "INIT"
    /\ tasks = <<>>
    /\ hasTasks = FALSE
    /\ deps = [c \in 1..Len(tree) |-> <<>>]
    /\ dependsOn = [c \in 1..Len(tree) |-> <<>>]
    /\ cstate = [c \in 1..Len(tree) |-> C_CREATING]
    /\ tstate = [c \in 1..Len(tree) |-> T_PRE]
    /\ queue = <<>>
    /\ promise = "null"
    /\ nfulfil = 0
    /\ doneSinceInstall = FALSE
    /\ podsStarted = [c \in 1..Len(tree) |-> 0]
    /\ http = [c \in 1..Len(tree) |-> 0]
    /\ nexec = [c \in 1..Len(tree) |-> 0]
    /\ started = [c \in 1..Len(tree) |-> FALSE]
    /\ elapsed = [c \in 1..Len(tree) |-> FALSE]
    /\ pollTimer = [c \in 1..Len(tree) |-> 0]
    /\ probing = [c \in 1..Len(tree) |-> 0]
    /\ nevents = 0
    /\ effectiveArgs = [c \in 1..Len(tree) |-> MergeArgs(c)]
    /\ NoText

\* Component::prepare, after the task list is built: prepareTasks, then
\* scanDependencies; either may throw
PrepareScan(ts, d) ==
    [tasks |-> ts, deps |-> d,
     scan |-> IF CycleCheck(d, ts, 1) # ""
              THEN [NoDependsOn EXCEPT !.err = CycleCheck(d, ts, 1)]
              ELSE ScanDependencies(NoDependsOn, Root)]

PrepareEdges(ts) == PrepareScan(ts, PrepareTaskEdges(ts, engineMode = "DELETE"))

PrepareCommit(r) ==
    /\ tasks' = r.tasks
    /\ hasTasks' = TRUE
    /\ deps' = r.deps
    /\ dependsOn' = r.scan.on
    /\ prepError' = r.scan.err
    /\ pc' = IF r.scan.err = "" THEN "prepared" ELSE "prepfailed"

\* Component::prepare.  addDeploymentTasks / addRemovementTasks set every
\* component RUNNING (the evaluate() of the parent this triggers finds the
\* tasks in PRE and the children not DONE, and changes nothing); then
\* prepareTasks and scanDependencies run.
Prepare ==
    /\ pc = "init"
    /\ PrepareCommit(PrepareEdges(AddTasks(Root)))
    /\ cstate' = [c \in Comps |-> C_RUNNING]
    /\ UNCHANGED <<confVars, clusterState, tstate, queue, promise, nfulfil,
                   doneSinceInstall, podsStarted, http, nexec, started,
                   elapsed, pollTimer, probing, nevents>>

\* Component::execute, first statement: post runTasks to the executor (the
\* cluster is EXECUTING from here on)
ExecutePost ==
    /\ pc = "prepared"
    /\ pc' = "posted"
    /\ clusterState' = "EXECUTING"
    /\ queue' = Append(queue, RunTasksItem)
    /\ UNCHANGED <<confVars, structVars, cstate, tstate, promise, nfulfil,
                   doneSinceInstall, podsStarted, http, nexec, started,
                   elapsed, pollTimer, probing, nevents>>

\* Component::execute, second statement: install the promise
ExecuteInstall ==
    /\ pc = "posted"
    /\ pc' = "running"
    /\ promise' = "installed"
    /\ UNCHANGED <<confVars, structVars, clusterState, cstate, tstate, queue,
                   nfulfil, doneSinceInstall, podsStarted, http, nexec,
                   started, elapsed, pollTimer, probing, nevents>>

Executing == pc \in {"posted", "running"}

Handled(w) == [w EXCEPT !.q = Tail(@)]

\* the executor runs a posted runTasks
ExecRunTasks ==
    /\ Executing
    /\ queue # <<>> /\ Head(queue).h = "runTasks"
    /\ Commit(RunTasks(Handled(World)))
    /\ UNCHANGED <<confVars, structVars, pc, clusterState, nevents>>

\* the executor runs a posted processEvent
ExecProcessEvent ==
    /\ Executing
    /\ queue # <<>> /\ Head(queue).h = "processEvent"
    /\ Commit(ProcessEvent(Handled(World), Head(queue).e))
    /\ UNCHANGED <<confVars, structVars, pc, clusterState, nevents>>

\* the executor runs the lambda schedulePoll posted
ExecPoll ==
    /\ Executing
    /\ queue # <<>> /\ Head(queue).h = "poll"
    /\ Commit(PollLambda(Handled(World), Head(queue).t))
    /\ UNCHANGED <<confVars, structVars, pc, clusterState, nevents>>

\* the events the cluster can emit: for every component a pod-created event
\* that carries its name, and variants that differ in one field
PodCreated(c) ==
    [kind |-> "Pod", objName |-> tree[c].name \o <<"-", "1">>,
     evName |-> tree[c].name \o <<"-", "1">>, ns |-> ConfigNs,
     reason |-> "Created"]

\* the events that fail exactly one of the five tests of the Deployment
\* closure
NearMisses(c) ==
    {[PodCreated(c) EXCEPT !.kind = "ReplicaSet"],
     [PodCreated(c) EXCEPT !.objName = tree[c].name \o <<"1">>],
     [PodCreated(c) EXCEPT !.evName = tree[c].name],
     [PodCreated(c) EXCEPT !.ns = "other"],
     [PodCreated(c) EXCEPT !.reason = "Killing"]}

Deployments == {k \in Comps : KindOf(k) = "Deployment"}

Events ==
    {PodCreated(c) : c \in Deployments}
    \cup {[PodCreated(Root) EXCEPT !.reason = "Killing"]}

\* Component::onEvent on the root: post processEvent when tasks_ exist
OnEvent ==
    /\ Executing
    /\ nevents < MaxEvents
    /\ hasTasks
    /\ \E e \in Events : queue' = Append(queue, EventItem(e))
    /\ nevents' = nevents + 1
    /\ UNCHANGED <<confVars, structVars, pc, clusterState, cstate, tstate,
                   promise, nfulfil, doneSinceInstall, podsStarted, http,
                   nexec, started, elapsed, pollTimer, probing>>

\* the reply (or the failure) of a request arrives and its handler runs
HttpReply ==
    /\ Executing
    /\ \E t \in SeqRange(tasks) :
        /\ http[t] > 0
        /\ \E outcome \in ReplyOutcomes :
             Commit(ReplyHandler([World EXCEPT !.http[t] = @ - 1], t, outcome))
    /\ UNCHANGED <<confVars, structVars, pc, clusterState, nevents>>

\* the poll timer of a task fires: the timer is dropped and probe() issues
\* its GET
TimerFire ==
    /\ Executing
    /\ \E t \in SeqRange(tasks) :
        /\ pollTimer[t] > 0
        /\ Commit([World EXCEPT !.timer[t] = @ - 1,
                                !.probing[t] = Min(@ + 1, 2)])
    /\ UNCHANGED <<confVars, structVars, pc, clusterState, nevents>>

\* the probe reports the state of the object
ProbeResult ==
    /\ Executing
    /\ \E t \in SeqRange(tasks) :
        /\ probing[t] > 0
        /\ \E state \in K8ObjectStates :
             Commit(ProbeCallback([World EXCEPT !.probing[t] = @ - 1], t, state))
    /\ UNCHANGED <<confVars, structVars, pc, clusterState, nevents>>

Next ==
    \/ Prepare
    \/ ExecutePost
    \/ ExecuteInstall
    \/ ExecRunTasks
    \/ ExecProcessEvent
    \/ ExecPoll
    \/ OnEvent
    \/ HttpReply
    \/ TimerFire
    \/ ProbeResult

Spec == Init /\ [][Next]_vars

(***************************************************************************)
(* Component::addDependency on its own: any sequence of calls on four       *)
(* components, each call starting without a pending exception.             *)
(***************************************************************************)
\* the four components the calls are made on
DependsTree == Trees[7]

InitDepends ==
    /\ tree = DependsTree
    /\ engineMode = "DEPLOY"
    /\ ignoreErrors = FALSE
    /\ pc = "depends"
    /\ prepError = ""
    /\ clusterState = "INIT"
    /\ tasks = <<>>
    /\ hasTasks = FALSE
    /\ deps = [c \in 1..Len(tree) |-> <<>>]
    /\ dependsOn = [c \in 1..Len(tree) |-> <<>>]
    /\ cstate = [c \in 1..Len(tree) |-> C_CREATING]
    /\ tstate = [c \in 1..Len(tree) |-> T_PRE]
    /\ queue = <<>>
    /\ promise = "null"
    /\ nfulfil = 0
    /\ doneSinceInstall = FALSE
    /\ podsStarted = [c \in 1..Len(tree) |-> 0]
    /\ http = [c \in 1..Len(tree) |-> 0]
    /\ nexec = [c \in 1..Len(tree) |-> 0]
    /\ started = [c \in 1..Len(tree) |-> FALSE]
    /\ elapsed = [c \in 1..Len(tree) |-> FALSE]
    /\ pollTimer = [c \in 1..Len(tree) |-> 0]
    /\ probing = [c \in 1..Len(tree) |-> 0]
    /\ nevents = 0
    /\ effectiveArgs = [c \in 1..Len(tree) |-> MergeArgs(c)]
    /\ NoText

\* what a call leaves behind: the lists, and the message of its exception
DependsCommit(r) ==
    /\ dependsOn' = r.on
    /\ prepError' = r.err

\* the state a call of addDependency starts from
DependsState == [on |-> dependsOn, err |-> ""]

\* src.addDependency(dst) for any two components
AddDependencyCall ==
    /\ pc = "depends"
    /\ \E src \in Comps : \E dst \in Comps :
         DependsCommit(AddDependency(DependsState, src, dst))
    /\ UNCHANGED <<confVars, pc, clusterState, tasks, hasTasks, deps, cstate,
                   tstate, queue, promise, nfulfil, doneSinceInstall,
                   podsStarted, http, nexec, started, elapsed, pollTimer,
                   probing, nevents>>

NextDepends == AddDependencyCall

SpecDepends == InitDepends /\ [][NextDepends]_vars

(***************************************************************************)
(* The cycle check of prepareTasks on its own: three tasks with any        *)
(* dependency lists (Task::addDependency takes any task).                  *)
(***************************************************************************)
\* the sequence of the elements of a set of components, in index order
SeqOfSet(S) == SelectSeq([i \in 1..Len(DependsTree) |-> i], LAMBDA c : c \in S)

\* the tasks of DependsTree
GraphTasks == <<2, 3, 4>>

InitTaskGraph ==
    /\ tree = DependsTree
    /\ engineMode = "DEPLOY"
    /\ ignoreErrors = FALSE
    /\ pc = "graph"
    /\ prepError = ""
    /\ clusterState = "INIT"
    /\ tasks = GraphTasks
    /\ hasTasks = TRUE
    /\ \E g \in [SeqRange(GraphTasks) -> SUBSET SeqRange(GraphTasks)] :
         deps = [c \in 1..Len(tree) |->
                    IF c \in DOMAIN g THEN SeqOfSet(g[c]) ELSE <<>>]
    /\ dependsOn = [c \in 1..Len(tree) |-> <<>>]
    /\ cstate = [c \in 1..Len(tree) |-> C_RUNNING]
    /\ tstate = [c \in 1..Len(tree) |-> T_PRE]
    /\ queue = <<>>
    /\ promise = "null"
    /\ nfulfil = 0
    /\ doneSinceInstall = FALSE
    /\ podsStarted = [c \in 1..Len(tree) |-> 0]
    /\ http = [c \in 1..Len(tree) |-> 0]
    /\ nexec = [c \in 1..Len(tree) |-> 0]
    /\ started = [c \in 1..Len(tree) |-> FALSE]
    /\ elapsed = [c \in 1..Len(tree) |-> FALSE]
    /\ pollTimer = [c \in 1..Len(tree) |-> 0]
    /\ probing = [c \in 1..Len(tree) |-> 0]
    /\ nevents = 0
    /\ effectiveArgs = [c \in 1..Len(tree) |-> MergeArgs(c)]
    /\ NoText

\* prepareTasks, the check for circular dependencies, on the given lists
CheckTaskGraph ==
    /\ pc = "graph"
    /\ pc' = "checked"
    /\ prepError' = CycleCheck(deps, tasks, 1)
    /\ UNCHANGED <<confVars, clusterState, tasks, hasTasks, deps, dependsOn,
                   cstate, tstate, queue, promise, nfulfil, doneSinceInstall,
                   podsStarted, http, nexec, started, elapsed, pollTimer,
                   probing, nevents>>

NextTaskGraph == CheckTaskGraph

SpecTaskGraph == InitTaskGraph /\ [][NextTaskGraph]_vars

(***************************************************************************)
(* The engine with the one source of events the code has: the loop of      *)
(* Cluster::startEventsLoop over the events watch stream.  The loop runs   *)
(* from the construction of the cluster on; its body logs the event.       *)
(***************************************************************************)
\* Cluster::startEventsLoop, one iteration of the loop over the stream
WatchEvent ==
    /\ pc \in {"init", "prepared", "prepfailed", "posted", "running"}
    /\ nevents < MaxEvents
    /\ \E e \in Events : nevents' = nevents + 1
    /\ UNCHANGED <<confVars, structVars, pc, clusterState, cstate, tstate,
                   queue, promise, nfulfil, doneSinceInstall, podsStarted,
                   http, nexec, started, elapsed, pollTimer, probing>>

NextWatch ==
    \/ Prepare
    \/ ExecutePost
    \/ ExecuteInstall
    \/ ExecRunTasks
    \/ ExecPoll
    \/ WatchEvent
    \/ HttpReply
    \/ TimerFire
    \/ ProbeResult

SpecWatch == Init /\ [][NextWatch]_vars

(***************************************************************************)
(* Component::mergeArgs on its own: a chain of three components whose args *)
(* and defaultArgs are drawn from small sets, and the init() of the tree   *)
(* that computes effectiveArgs_ for every component.                       *)
(***************************************************************************)
\* the chain root -> a -> b
MergeTree == Trees[2]

\* the keys of the conf_t maps
ConfKeys == {"pod.args", "pod.env", "image"}

\* the values a key may have when its non-empty value is v (only pod.args
\* is tried with an empty string)
ConfValues(k, v) == IF k = "pod.args" THEN {<<>>, v} ELSE {v}

\* the conf_t maps over the keys whose non-empty value is v
Confs(v) ==
    UNION {{f \in [D -> {<<>>, v}] : \A k \in D : f[k] \in ConfValues(k, v)}
           : D \in SUBSET ConfKeys}

\* the tree with local args l on every component and defaultArgs d1, d2, d3
WithArgs(l, d1, d2, d3) ==
    [c \in 1..Len(MergeTree) |->
        [MergeTree[c] EXCEPT !.args = l,
                             !.defaultArgs = IF c = 1 THEN d1
                                             ELSE IF c = 2 THEN d2 ELSE d3]]

\* every engine variable as populateTree leaves it
Idle ==
    /\ engineMode = "DEPLOY"
    /\ ignoreErrors = FALSE
    /\ prepError = ""
    /\ clusterState = "INIT"
    /\ tasks = <<>>
    /\ hasTasks = FALSE
    /\ deps = [c \in 1..Len(tree) |-> <<>>]
    /\ dependsOn = [c \in 1..Len(tree) |-> <<>>]
    /\ cstate = [c \in 1..Len(tree) |-> C_CREATING]
    /\ tstate = [c \in 1..Len(tree) |-> T_PRE]
    /\ queue = <<>>
    /\ promise = "null"
    /\ nfulfil = 0
    /\ doneSinceInstall = FALSE
    /\ podsStarted = [c \in 1..Len(tree) |-> 0]
    /\ http = [c \in 1..Len(tree) |-> 0]
    /\ nexec = [c \in 1..Len(tree) |-> 0]
    /\ started = [c \in 1..Len(tree) |-> FALSE]
    /\ elapsed = [c \in 1..Len(tree) |-> FALSE]
    /\ pollTimer = [c \in 1..Len(tree) |-> 0]
    /\ probing = [c \in 1..Len(tree) |-> 0]
    /\ nevents = 0

runVars == <<engineMode, ignoreErrors, prepError, clusterState, tasks,
             hasTasks, deps, dependsOn, cstate, tstate, queue, promise,
             nfulfil, doneSinceInstall, podsStarted, http, nexec, started,
             elapsed, pollTimer, probing, nevents>>

\* the components are constructed; init() has not run
InitMerge ==
    /\ tree \in {WithArgs(l, d1, d2, d3) :
                    l \in Confs(<<"l">>), d1 \in Confs(MergeTree[1].name),
                    d2 \in Confs(MergeTree[2].name),
                    d3 \in Confs(MergeTree[3].name)}
    /\ pc = "merge"
    /\ effectiveArgs = [c \in 1..Len(tree) |-> NoConf]
    /\ Idle
    /\ NoText

\* Component::init of the root: effectiveArgs_ = mergeArgs(), then the same
\* for the children (initChildren)
InitComponents ==
    /\ pc = "merge"
    /\ pc' = "merged"
    /\ effectiveArgs' = [c \in 1..Len(tree) |-> MergeArgs(c)]
    /\ UNCHANGED <<tree, runVars, textVars>>

NextMerge == InitComponents

SpecMerge == InitMerge /\ [][NextMerge]_vars

(***************************************************************************)
(* expandVariables on its own: a text with a ${name,default} token, a     *)
(* variable map and an environment drawn from small sets, and one call.    *)
(* A text is a sequence of characters.                                     *)
(***************************************************************************)
\* isalnum(ch, loc) || ch == '.' || ch == '_'
NameChars == {"P", "O", "R", "T", "Q", "0", "6", "7", "8", "9", ".", "_"}

\* getenv(name)
HasEnv(name) == name \in DOMAIN environ

\* getVar(name, vars, defaultValue)
GetVar(name, hasDefault, defaultValue) ==
    IF name \in DOMAIN variables THEN variables[name]
    ELSE IF HasEnv(name) THEN environ[name]
    ELSE IF hasDefault THEN defaultValue
    ELSE <<>>

\* the local variables of expandVariables before the loop
ScanStart ==
    [state |-> "COPY", expanded |-> <<>>, varName |-> <<>>,
     hasDefault |-> FALSE, defaultValue |-> <<>>, err |-> ""]

\* std::string::operator=(char) with *evar, the first char of the value
\* getenv returned (the terminating NUL when the value is empty)
FirstChar(value) == IF value = <<>> THEN <<"NUL">> ELSE <<Head(value)>>

\* expandVariables, label commit: a default that starts with '$' names an
\* environment variable; when it is set, *defaultValue = *evar
EffectiveDefault(st) ==
    IF st.hasDefault /\ st.defaultValue # <<>> /\ Head(st.defaultValue) = "$"
       /\ HasEnv(Tail(st.defaultValue))
    THEN FirstChar(environ[Tail(st.defaultValue)])
    ELSE st.defaultValue

\* expandVariables, label commit
CommitVariable(st, ch) ==
    IF ch = "}"
    THEN [st EXCEPT !.expanded = @ \o GetVar(st.varName, st.hasDefault,
                                              EffectiveDefault(st)),
                    !.state = "COPY"]
    ELSE [st EXCEPT !.err = "Error expanding macro"]

\* expandVariables, the body of the loop for one character
ScanChar(st, ch) ==
    IF st.state = "COPY"
    THEN (IF ch = "\\" THEN [st EXCEPT !.state = "BACKSLASH"]
          ELSE IF ch = "$" THEN [st EXCEPT !.state = "DOLLAR"]
          ELSE [st EXCEPT !.expanded = Append(@, ch)])
    ELSE IF st.state = "BACKSLASH"
    THEN [st EXCEPT !.expanded = (IF ch # "$" THEN Append(@, "\\") ELSE @)
                                 \o <<ch>>,
                    !.state = "COPY"]
    ELSE IF st.state = "DOLLAR"
    THEN (IF ch = "{"
          THEN [st EXCEPT !.state = "SCAN_NAME", !.varName = <<>>,
                          !.hasDefault = FALSE, !.defaultValue = <<>>]
          ELSE [st EXCEPT !.expanded = @ \o <<"$", ch>>, !.state = "COPY"])
    ELSE IF st.state = "SCAN_NAME"
    THEN (IF ch \in NameChars THEN [st EXCEPT !.varName = Append(@, ch)]
          ELSE IF ch = ","
          THEN [st EXCEPT !.hasDefault = TRUE, !.defaultValue = <<>>,
                          !.state = "SCAN_DEFAUT_VALUE"]
          ELSE CommitVariable(st, ch))
    ELSE IF ch = "}" THEN CommitVariable(st, ch)
    ELSE [st EXCEPT !.defaultValue =
                        (IF ch = "\"" THEN Append(@, "\\") ELSE @) \o <<ch>>]

\* expandVariables, the loop over the characters; an exception ends it
RECURSIVE ScanText(_, _, _)
ScanText(st, text, i) ==
    IF i > Len(text) \/ st.err # "" THEN st
    ELSE ScanText(ScanChar(st, text[i]), text, i + 1)

\* expandVariables, after the loop
ScanEnd(st) ==
    IF st.err # "" THEN [str |-> <<>>, err |-> st.err]
    ELSE IF st.state # "COPY"
    THEN [str |-> <<>>, err |-> "Error expanding macro"]
    ELSE [str |-> st.expanded, err |-> ""]

\* expandVariables(json, vars)
ExpandVariables(text) == ScanEnd(ScanText(ScanStart, text, 1))

\* the names and values of the texts
PORT == <<"P", "O", "R", "T">>
NameQ == <<"Q">>
NoDefault == <<"none">>
PlainDefaults == {<<>>, <<"8", "0", "8", "0">>}
Defaults == PlainDefaults \cup {NoDefault, <<"$", "Q">>, <<"\"", "8">>}

\* the text of the token ${name} or ${name,default}
Token(name, default) ==
    IF default = NoDefault THEN <<"$", "{">> \o name \o <<"}">>
    ELSE <<"$", "{">> \o name \o <<",">> \o default \o <<"}">>

\* the texts: a token alone or inside other text, an escaped token, a lone
\* dollar, a token that is not closed, a name with a character names do not
\* have
Texts ==
    {Token(n, d) : n \in {PORT, NameQ}, d \in Defaults}
    \cup {<<"x">> \o Token(n, d) \o <<"y">> : n \in {PORT}, d \in Defaults}
    \cup {<<"\\">> \o Token(NameQ, NoDefault), <<"\\", "n">>, <<"$", "x">>,
          <<"$", "{", "Q">>, <<"$", "{", "Q", " ", "}">>,
          <<"\\", "$">>, <<"\\", "$", "x">>, <<"x", "\\", "$">>}

\* the variable maps and the environments
VariableMaps == {NoConf, PORT :> <<"9", "0", "9", "0">>}
Environments ==
    {NoConf, PORT :> <<"7", "0", "7", "0">>, NameQ :> <<"6", "0">>,
     (PORT :> <<"7", "0", "7", "0">>) @@ (NameQ :> <<"6", "0">>)}

InitExpand ==
    /\ tree = MergeTree
    /\ pc = "expand"
    /\ effectiveArgs = [c \in 1..Len(tree) |-> NoConf]
    /\ Idle
    /\ json \in Texts
    /\ variables \in VariableMaps
    /\ environ \in Environments
    /\ expanded = NoExpansion
    /\ NoList
    /\ NoCluster

\* one call of expandVariables(json, vars)
ExpandCall ==
    /\ pc = "expand"
    /\ pc' = "expanded"
    /\ expanded' = ExpandVariables(json)
    /\ UNCHANGED <<tree, effectiveArgs, runVars, json, variables, environ,
                   listVars, clusterVars>>

NextExpand == ExpandCall

SpecExpand == InitExpand /\ [][NextExpand]_vars

(***************************************************************************)
(* Component::getArgAsStringList on its own: every text of up to           *)
(* MaxValuesLen characters over letters, the space and the single quote,   *)
(* and one call.                                                           *)
(***************************************************************************)
MaxValuesLen == 5

\* ch == ' ' || ch == '\t' || ch == '\r' || ch == '\n'
IsSpace(ch) == ch \in {" ", "\t", "\r", "\n"}

\* rval.push_back(value); value.clear(); state = State::SKIPPING
PushValue(st) ==
    [st EXCEPT !.rval = Append(@, st.value), !.value = <<>>,
               !.state = "SKIPPING"]

\* the case IN_QUOTED_STRING, which the case IN_STRING falls through to
QuotedChar(st, ch) ==
    IF ch = "'" THEN PushValue(st) ELSE [st EXCEPT !.value = Append(@, ch)]

\* getArgAsStringList, the body of the loop for one character
ListChar(st, ch) ==
    IF st.state = "SKIPPING"
    THEN (IF IsSpace(ch) THEN st
          ELSE IF ch = "'" THEN [st EXCEPT !.state = "IN_QUOTED_STRING"]
          ELSE [st EXCEPT !.state = "IN_STRING", !.value = Append(@, ch)])
    ELSE IF st.state = "IN_STRING"
    THEN (IF IsSpace(ch) THEN PushValue(st) ELSE QuotedChar(st, ch))
    ELSE QuotedChar(st, ch)

\* getArgAsStringList, the loop over the characters
RECURSIVE ListText(_, _, _)
ListText(st, text, i) ==
    IF i > Len(text) THEN st ELSE ListText(ListChar(st, text[i]), text, i + 1)

\* getArgAsStringList, after the loop: a value that was begun is kept
ListEnd(st) == IF st.value # <<>> THEN Append(st.rval, st.value) ELSE st.rval

\* Component::getArgAsStringList(values)
GetArgAsStringList(text) ==
    ListEnd(ListText([state |-> "SKIPPING", value |-> <<>>, rval |-> <<>>],
                     text, 1))

\* the texts of up to MaxValuesLen characters
ListTexts ==
    UNION {[1..n -> {"a", "b", " ", "'"}] : n \in 0..MaxValuesLen}

InitList ==
    /\ tree = MergeTree
    /\ pc = "list"
    /\ effectiveArgs = [c \in 1..Len(tree) |-> NoConf]
    /\ Idle
    /\ NoExpand
    /\ NoCluster
    /\ values \in ListTexts
    /\ rval = <<>>

\* one call of getArgAsStringList(values)
ListCall ==
    /\ pc = "list"
    /\ pc' = "listed"
    /\ rval' = GetArgAsStringList(values)
    /\ UNCHANGED <<tree, effectiveArgs, runVars, json, variables, environ,
                   expanded, values, clusterVars>>

NextList == ListCall

SpecList == InitList /\ [][NextList]_vars

(***************************************************************************)
(* Cluster::parseArgs on its own: the constructor of a cluster with an     *)
(* argument kubeconfig[:k1=v1,...] built from small sets.                  *)
(***************************************************************************)
\* str.find(ch): the first position of ch, 0 for npos
Find(str, ch) ==
    IF \E i \in 1..Len(str) : str[i] = ch
    THEN CHOOSE i \in 1..Len(str) :
             str[i] = ch /\ \A j \in 1..(i - 1) : str[j] # ch
    ELSE 0

\* Cluster::split(str, ch)
Split(str, ch) ==
    IF Find(str, ch) = 0 THEN <<str, <<>>>>
    ELSE <<SubSeq(str, 1, Find(str, ch) - 1),
           SubSeq(str, Find(str, ch) + 1, Len(str))>>

\* boost::split(pairs, vars, boost::is_any_of(","))
RECURSIVE SplitPairs(_)
SplitPairs(str) ==
    IF Find(str, ",") = 0 THEN <<str>>
    ELSE <<Split(str, ",")[1]>> \o SplitPairs(Split(str, ",")[2])

\* variables_.insert(split(pair, '=')): a key that is there is kept
InsertPair(vs, kv) == IF kv[1] \in DOMAIN vs THEN vs ELSE vs @@ (kv[1] :> kv[2])

\* Cluster::parseArgs, the loop over the pairs
RECURSIVE InsertPairs(_, _, _)
InsertPairs(vs, pairs, i) ==
    IF i > Len(pairs) THEN vs
    ELSE IF pairs[i] = <<>> THEN InsertPairs(vs, pairs, i + 1)
    ELSE InsertPairs(InsertPair(vs, Split(pairs[i], "=")), pairs, i + 1)

NameKey == <<"n", "a", "m", "e">>
DefaultName == <<"d", "e", "f", "a", "u", "l", "t">>

\* the default of the variable name: the kubeconfig cut at its first '.'
NameFromKubeconfig(kc) ==
    IF Split(kc, ".")[1] = <<>> THEN DefaultName ELSE Split(kc, ".")[1]

\* Cluster::parseArgs, the variable name: variables_["name"] is created
\* when it is missing and set when it is empty
WithName(vs, kc) ==
    IF NameKey \in DOMAIN vs /\ vs[NameKey] # <<>> THEN vs
    ELSE [k \in DOMAIN vs \cup {NameKey} |->
             IF k = NameKey THEN NameFromKubeconfig(kc) ELSE vs[k]]

\* Cluster::parseArgs: variables_ after the call
ParseArgs(arg) ==
    WithName(InsertPairs(NoConf, SplitPairs(Split(arg, ":")[2]), 1),
             Split(arg, ":")[1])

\* kubeconfig paths: [1] the path, [2] its basename up to the first '.'
KubeconfigPaths ==
    {<<<<"k">>, <<"k">>>>,
     <<<<"k", ".", "c">>, <<"k">>>>,
     <<<<"k", ".", "c", ".", "d">>, <<"k">>>>,
     <<<<".", "k">>, <<>>>>,
     <<<<>>, <<>>>>,
     <<<<"d", "/", "k">>, <<"k">>>>,
     <<<<"d", "/", "k", ".", "c">>, <<"k">>>>,
     <<<<"d", ".", "e", "/", "k", ".", "c">>, <<"k">>>>,
     <<<<"/", "d", "/", ".", "k">>, <<>>>>}

\* variable lists: [1] the text after ':', [2] the value it gives the variable
\* name, empty when it gives none
VariableLists ==
    {<<<<>>, <<>>>>,
     <<<<"x", "=", "y">>, <<>>>>,
     <<<<"x", "=", "y", ",", ",", "z">>, <<>>>>,
     <<NameKey \o <<"=">>, <<>>>>,
     <<NameKey \o <<"=", "v">>, <<"v">>>>,
     <<NameKey \o <<"=", "v", ".", "w">>, <<"v", ".", "w">>>>,
     <<<<"x", "=", "y", ",">> \o NameKey \o <<"=", "v">>, <<"v">>>>,
     <<NameKey \o <<"=", "v", ",", "x", "=", "y">>, <<"v">>>>}

\* the argument kubeconfig or kubeconfig:k1=v1,...
ClusterArgs ==
    {p[1] : p \in KubeconfigPaths}
    \cup {p[1] \o <<":">> \o v[1] : p \in KubeconfigPaths, v \in VariableLists}

InitCluster ==
    /\ tree = MergeTree
    /\ pc = "cluster"
    /\ effectiveArgs = [c \in 1..Len(tree) |-> NoConf]
    /\ Idle
    /\ NoExpand
    /\ NoList
    /\ clusterArg \in ClusterArgs
    /\ kubeconfig = <<>>
    /\ clusterVariables = NoConf

\* Cluster::Cluster(cfg, arg, client): parseArgs(arg)
ClusterNew ==
    /\ pc = "cluster"
    /\ pc' = "parsed"
    /\ kubeconfig' = Split(clusterArg, ":")[1]
    /\ clusterVariables' = ParseArgs(clusterArg)
    /\ UNCHANGED <<tree, effectiveArgs, runVars, json, variables, environ,
                   expanded, listVars, clusterArg>>

NextCluster == ClusterNew

SpecCluster == InitCluster /\ [][NextCluster]_vars

(***************************************************************************)
(* Deployments of trees in which a component depends on its own descendant *)
(* or ancestor; the engine is the one of Spec.                             *)
(***************************************************************************)
\* Service a with child Service b (relation AFTER); a depends on b
DescendantTree ==
    << Cmp(nR, "App", 0, "AFTER", <<>>, 0),
       Cmp(nA, "Service", 1, "AFTER", <<nB>>, 0),
       Cmp(nB, "Service", 2, "AFTER", <<>>, 0) >>

\* App a, which has no task, with child Service b; b depends on a
AncestorTree ==
    << Cmp(nR, "App", 0, "AFTER", <<>>, 0),
       Cmp(nA, "App", 1, "AFTER", <<>>, 0),
       Cmp(nB, "Service", 2, "AFTER", <<nA>>, 0) >>

\* Service a, and App b, which has no task and depends on a, with child
\* Service c
SubtreeTree ==
    << Cmp(nR, "App", 0, "AFTER", <<>>, 0),
       Cmp(nA, "Service", 1, "AFTER", <<>>, 0),
       Cmp(nB, "App", 1, "AFTER", <<nA>>, 0),
       Cmp(nC, "Service", 3, "AFTER", <<>>, 0) >>

\* with them a lone Deployment and a lone Job
CreateTrees ==
    {DescendantTree, AncestorTree, SubtreeTree, Trees[1], Trees[8]}

InitCreate ==
    /\ tree \in CreateTrees
    /\ pc = "init"
    /\ effectiveArgs = [c \in 1..Len(tree) |-> MergeArgs(c)]
    /\ Idle
    /\ NoText

SpecCreate == InitCreate /\ [][Next]_vars

TypeOK ==
    /\ pc \in {"init", "prepared", "prepfailed", "posted", "running",
              "depends", "graph", "checked", "merge", "merged",
              "expand", "expanded", "list", "listed", "cluster",
              "parsed"}
    /\ \A c \in Comps : cstate[c] \in C_CREATING..C_FAILED
    /\ \A c \in Comps : tstate[c] \in T_PRE..T_DEPENDENCY_FAILED
    /\ nfulfil \in 0..2

(***************************************************************************)
(* Properties.                                                             *)
(***************************************************************************)
TaskSet == SeqRange(tasks)
TasksOf(c) == {t \in TaskSet : Owner(t) = c}
ChildSet(c) == {k \in Comps : Parent(k) = c}
Terminal == {T_DONE, T_ABORTED, T_FAILED, T_DEPENDENCY_FAILED}

\* nothing is pending on the executor, on the wire or on a timer, and the
\* cluster emits no further event
Quiescent ==
    /\ pc = "running"
    /\ queue = <<>>
    /\ nevents = MaxEvents
    /\ \A t \in TaskSet : http[t] = 0 /\ pollTimer[t] = 0 /\ probing[t] = 0

\* C1: a component is in state DONE only if every task it owns is DONE and
\* every child component is DONE.
C1_DoneOnlyWithTasksAndChildrenDone ==
    \A c \in Comps :
        cstate[c] = C_DONE =>
            /\ \A t \in TasksOf(c) : tstate[t] = T_DONE
            /\ \A k \in ChildSet(c) : cstate[k] = C_DONE

\* the Deployments that have a child Service with relation AFTER
DeploymentWithService ==
    {p \in Comps \X Comps :
        /\ KindOf(p[1]) = "Deployment" /\ KindOf(p[2]) = "Service"
        /\ Parent(p[2]) = p[1] /\ tree[p[2]].rel = "AFTER"}

\* C2: for a Deployment with a child Service in deploy mode, the Service POST
\* is issued only when the Deployment task is DONE, and the root is DONE only
\* when the Deployment task and the Service task are DONE and every task of
\* the tree has been executed.
C2_ServiceAfterDeploymentAndRootLast ==
    /\ [](Mode = "CREATE" =>
            \A p \in DeploymentWithService :
                cstate[Root] = C_DONE =>
                    /\ tstate[p[1]] = T_DONE /\ tstate[p[2]] = T_DONE
                    /\ \A t \in TaskSet : nexec[t] > 0)
    /\ [][Mode = "CREATE" =>
            \A p \in DeploymentWithService :
                nexec'[p[2]] > nexec[p[2]] => tstate[p[1]] = T_DONE]_vars

\* C3: no task ever moves from a terminal state (DONE, FAILED, ABORTED,
\* DEPENDENCY_FAILED) to another state.
C3_TerminalTaskStateIsFinal ==
    [][\A t \in TaskSet : tstate[t] \in Terminal => tstate'[t] = tstate[t]]_vars

\* C4: a task's state only moves forward in the order PRE < BLOCKED < READY <
\* EXECUTING < WAITING < DONE < ABORTED < FAILED < DEPENDENCY_FAILED.
C4_TaskStateMonotonic ==
    [][\A t \in TaskSet : tstate'[t] >= tstate[t]]_vars

\* C5: the root's promise does not stay pending: when the run has come to
\* rest with the root FAILED, the promise has been completed (with an
\* error); and it has been fulfilled if and only if the root reached DONE.
C5_PromiseCompletedAtRest ==
    Quiescent =>
        /\ cstate[Root] = C_FAILED => promise # "installed"
        /\ nfulfil > 0 <=> doneSinceInstall

\* C6: the root's promise is fulfilled exactly once per run: once the root
\* has entered DONE with the promise installed it has been fulfilled once,
\* no other state change fulfils it, and it is never fulfilled twice.
C6_PromiseFulfilledOnce ==
    /\ nfulfil <= 1
    /\ nfulfil = 1 <=> doneSinceInstall
    /\ nfulfil = 1 => promise = "null"

\* C6 witness: the promise was fulfilled and the root has left DONE again
C6_Witness == nfulfil = 1 /\ cstate[Root] = C_FAILED

\* the components with a task whose parent has a task
ParentChildTasks ==
    {p \in Comps \X Comps :
        Parent(p[2]) = p[1] /\ HasTask(p[1]) /\ HasTask(p[2])}

\* C7: in DELETE mode the delete task of a parent is not executed (does not
\* leave BLOCKED/READY) while the delete task of a child is not DONE.
C7_ChildDeletedBeforeParent ==
    Mode = "REMOVE" =>
        \A p \in ParentChildTasks :
            tstate[p[1]] > T_READY => tstate[p[2]] = T_DONE

\* the dependsOn edges between components that have a task
DependsEdges ==
    {p \in Comps \X Comps :
        InSeq(p[2], dependsOn[p[1]]) /\ HasTask(p[1]) /\ HasTask(p[2])}

\* C8: in REMOVE mode a component's delete task is not executed until every
\* component it depends on (after the reversal of the edges) is DONE.
C8_ReversedDependsOnEnforced ==
    Mode = "REMOVE" =>
        \A p \in DependsEdges :
            tstate[p[1]] > T_READY => cstate[p[2]] = C_DONE

\* C9: in CREATE mode, when B has a dependsOn edge to A, every task of B is
\* BLOCKED (or still PRE) in every state where A is not DONE.
C9_BlockedWhileDependencyNotDone ==
    Mode = "CREATE" =>
        \A p \in DependsEdges :
            cstate[p[2]] # C_DONE => tstate[p[1]] <= T_BLOCKED

\* a BLOCKED task whose component is not blocked on dependsOn and that has a
\* task dependency in a state >= ABORTED
FailedDependencyCase(t) ==
    /\ tstate[t] = T_BLOCKED
    /\ ~(Mode = "CREATE"
         /\ \E i \in 1..Len(dependsOn[Owner(t)]) :
                cstate[dependsOn[Owner(t)][i]] # C_DONE)
    /\ \E i \in 1..Len(deps[t]) : tstate[deps[t][i]] >= T_ABORTED

\* C10: a BLOCKED task whose component is not blocked on dependsOn and that
\* has a task dependency in a state >= ABORTED becomes DEPENDENCY_FAILED on
\* its next evaluate, which returns changed = true; a DEPENDENCY_FAILED task
\* has issued no request and never does; and a runTasks that ran its passes
\* leaves no such task BLOCKED (the failure has cascaded).
C10_DependencyFailure ==
    /\ [](\A t \in TaskSet :
            /\ FailedDependencyCase(t) =>
                 /\ TaskEvaluate(World, t).w.ts[t] = T_DEPENDENCY_FAILED
                 /\ TaskEvaluate(World, t).changed
            /\ tstate[t] = T_DEPENDENCY_FAILED => nexec[t] = 0)
    /\ [][\A t \in TaskSet :
            /\ tstate[t] = T_DEPENDENCY_FAILED =>
                 tstate'[t] = T_DEPENDENCY_FAILED /\ nexec'[t] = 0
            /\ (ExecRunTasks /\ cstate'[Root] # C_DONE) =>
                 ~FailedDependencyCase(t)']_vars

\* C10 witness: the failure of a request has cascaded over two task edges
C10_Witness ==
    \E t \in TaskSet : \E i \in 1..Len(deps[t]) :
        /\ tstate[t] = T_DEPENDENCY_FAILED
        /\ tstate[deps[t][i]] = T_DEPENDENCY_FAILED
        /\ nexec[t] = 0

\* C11: a task that is DEPENDENCY_FAILED has its owning component FAILED once
\* the run has come to rest (the component "eventually becomes FAILED").
C11_DependencyFailedComponentFails ==
    Quiescent =>
        \A t \in TaskSet :
            tstate[t] = T_DEPENDENCY_FAILED => cstate[Owner(t)] = C_FAILED

\* C12: in CREATE mode, when B has a dependsOn edge to A and A is FAILED, no
\* task of B is still BLOCKED once the run has come to rest.
C12_NoDeadlockOnFailedDependsOn ==
    (Quiescent /\ Mode = "CREATE") =>
        \A p \in DependsEdges :
            cstate[p[2]] = C_FAILED => tstate[p[1]] > T_BLOCKED

\* the tasks that ended in a failure of their own
FailedTasks == {t \in TaskSet : tstate[t] \in {T_ABORTED, T_FAILED}}

\* the components of the subtree of c
SubTree(c) == SeqRange(Walk(c))

\* task t has every task dependency DONE and its component is not blocked
\* on dependsOn: nothing t waits for has failed or is still on its way
Unblocked(t) ==
    /\ \A i \in 1..Len(deps[t]) : tstate[deps[t][i]] = T_DONE
    /\ \A i \in 1..Len(dependsOn[Owner(t)]) :
           cstate[dependsOn[Owner(t)][i]] = C_DONE

\* C13: a failure stays with the failed node, its ancestors and what depends
\* on it: a task is DEPENDENCY_FAILED only if a task it (transitively)
\* depends on is in a failure state; a component is FAILED only if a task of
\* its subtree is in a failure state; and, in CREATE mode, when a task has
\* failed and the run has come to rest, every task that waits for nothing
\* has been executed.
C13_FailureStaysLocal ==
    /\ \A t \in TaskSet :
          tstate[t] = T_DEPENDENCY_FAILED =>
              \E d \in TaskDepsClosure(deps, {t}, {}) : tstate[d] > T_DONE
    /\ \A c \in Comps :
          cstate[c] = C_FAILED =>
              \E t \in TaskSet : Owner(t) \in SubTree(c) /\ tstate[t] > T_DONE
    /\ (Quiescent /\ Mode = "CREATE" /\ FailedTasks # {}) =>
          \A t \in TaskSet : Unblocked(t) => nexec[t] > 0

\* C13 witness: the Deployment failed and the Service subtree beside it was
\* deployed and is DONE
C13_Witness ==
    /\ Mode = "CREATE"
    /\ \E f \in FailedTasks : \E c \in Comps :
          /\ Parent(c) = Parent(Owner(f)) /\ c # Owner(f)
          /\ Children(c) # <<>>
          /\ \A k \in SubTree(c) : cstate[k] = C_DONE /\ nexec[k] > 0

\* the dependsOn edges as a set of pairs
DependsPairs(on) == {p \in Comps \X Comps : InSeq(p[2], on[p[1]])}

\* the pairs one composition adds to a relation
ComposeStep(R) ==
    {<<x[1][1], x[2][2]>> : x \in {y \in R \X R : y[1][2] = y[2][1]}}

\* the transitive closure of a relation
RECURSIVE TransitiveClosure(_)
TransitiveClosure(R) ==
    IF ComposeStep(R) \subseteq R THEN R
    ELSE TransitiveClosure(R \cup ComposeStep(R))

\* the pairs (a, b) with a dependsOn path from a to b
DependsPaths == TransitiveClosure(DependsPairs(dependsOn))

\* C14: after any sequence of addDependency calls the dependsOn graph is
\* acyclic: if there is a dependsOn path from a to b there is none from b to a.
C14_DependsOnAcyclic ==
    \A p \in DependsPaths : <<p[2], p[1]>> \notin DependsPaths

\* C14 witness: the four components are in one chain of edges and the last
\* call was refused as circular
C14_Witness ==
    /\ pc = "depends"
    /\ Cardinality(DependsPaths) = 6
    /\ Cardinality(DependsPairs(dependsOn)) = 3
    /\ prepError = "Circular dependency"

\* number of occurrences of x in s
Count(x, s) == Cardinality({i \in 1..Len(s) : s[i] = x})

\* s without its occurrences of x
Without(x, s) == SelectSeq(s, LAMBDA y : y # x)

\* what the call src.addDependency(dst) with result r has to satisfy
AddDependencyContract(src, dst, r) ==
    IF dst = src \/ <<dst, src>> \in DependsPaths
    THEN r.err # "" /\ r.on = dependsOn
    ELSE /\ r.err = ""
         /\ Count(dst, r.on[src]) = 1
         /\ Without(dst, r.on[src]) = Without(dst, dependsOn[src])
         /\ \A c \in Comps \ {src} : r.on[c] = dependsOn[c]
         /\ InSeq(dst, dependsOn[src]) => r.on = dependsOn

\* C15: addDependency(src -> dst) fails and leaves every dependsOn list
\* unchanged when dst is src or dst already depends on src over a path of
\* any length; otherwise it inserts the edge exactly once, and the insertion
\* of an edge that is already there changes nothing.
C15_AddDependencyContract ==
    \A src \in Comps : \A dst \in Comps :
        AddDependencyContract(src, dst,
                              AddDependency(DependsState, src, dst))

\* C15 witness: a self-edge was just refused while a component has three
\* edges and another depends on it over a path of two edges
C15_Witness ==
    /\ pc = "depends"
    /\ prepError = "Cannot depend on myself!"
    /\ \E c \in Comps : Len(dependsOn[c]) = 3
    /\ \E p \in DependsPaths : p \notin DependsPairs(dependsOn)

\* the declared depends of the tree hold two components that name each other
DependsCycleTree ==
    \E a \in Comps : \E b \in Comps \ {a} :
        InSeq(tree[b].name, tree[a].depends)
        /\ InSeq(tree[a].name, tree[b].depends)

\* C16: when two components name each other in depends, prepare fails with
\* "Circular dependency" in CREATE and in REMOVE mode, and no request has
\* been issued.
C16_DependsCycleFailsPrepare ==
    DependsCycleTree =>
        /\ pc \in {"init", "prepfailed"}
        /\ pc = "prepfailed" => prepError = "Circular dependency"
        /\ \A c \in Comps : nexec[c] = 0 /\ http[c] = 0

\* C16 witness: prepare has failed on such a tree in REMOVE mode
C16_Witness ==
    DependsCycleTree /\ Mode = "REMOVE" /\ pc = "prepfailed"

\* C17: the cycle check of prepareTasks ends, and it ends with "Circular
\* dependency" exactly when some task is in its own transitive dependency
\* closure.
C17_CycleCheckTerminatesAndDetects ==
    pc = "checked" =>
        /\ prepError \in {"", "Circular dependency"}
        /\ prepError = "Circular dependency" <=> TaskGraphCircular(deps, tasks)

\* task t depends on task u by the parentRelation of their components
InducedEdge(t, u) ==
    \/ Parent(Owner(t)) = Owner(u) /\ tree[Owner(t)].rel = "AFTER"
    \/ Parent(Owner(u)) = Owner(t) /\ tree[Owner(u)].rel = "BEFORE"

\* C18: in deploy mode, after prepareTasks, a task depends on exactly the
\* tasks parentRelation induces: the tasks of its parent when its relation
\* is AFTER, the tasks of its children whose relation is BEFORE; nothing for
\* INDEPENDENT or from the root; every edge is there once.
C18_DeployEdgesAreInduced ==
    (engineMode = "DEPLOY" /\ pc # "init") =>
        /\ \A t \in TaskSet : \A u \in TaskSet :
              InSeq(u, deps[t]) <=> InducedEdge(t, u)
        /\ \A c \in Comps :
              /\ SeqRange(deps[c]) \subseteq TaskSet
              /\ \A u \in SeqRange(deps[c]) : Count(u, deps[c]) = 1
              /\ c \notin TaskSet => deps[c] = <<>>

\* C18 witness: prepareTasks ran in deploy mode on a tree where a parent
\* task depends on a BEFORE child that itself depends on its BEFORE child
C18_Witness ==
    /\ engineMode = "DEPLOY" /\ pc = "prepared"
    /\ \E t \in TaskSet : \E u \in TaskSet : \E v \in TaskSet :
          /\ InSeq(u, deps[t]) /\ Parent(Owner(u)) = Owner(t)
          /\ InSeq(v, deps[u]) /\ Parent(Owner(v)) = Owner(u)

\* C19: in DELETE mode prepareTasks adds no edge: every dependency list is
\* empty after it, whatever parentRelation and reverseDependencies are.
C19_DeleteAddsNoEdges ==
    engineMode = "DELETE" =>
        /\ \A c \in Comps : deps[c] = <<>>
        /\ \A reverseDependencies \in BOOLEAN :
              PrepareTaskEdges(AddTasks(Root), reverseDependencies)
                  = NoTaskDeps

\* C19 witness: prepareTasks ran in DELETE mode on a tree where a parent
\* and its BEFORE child both have a task
C19_Witness ==
    /\ engineMode = "DELETE" /\ pc = "prepared"
    /\ \E p \in ParentChildTasks : tree[p[2]].rel = "BEFORE"

\* what a call of runTasks on state w with result r has to satisfy
RunTasksContract(w, r) ==
    /\ clusterState # "EXECUTING" => r = w
    /\ r.passes <= 3 * Len(tasks) + 1
    /\ ~RunPass(w, 1, FALSE).again => r.passes <= 1
    /\ (clusterState = "EXECUTING" /\ hasTasks /\ ~CompIsDone(r, Root)) =>
          ~RunPass(r, 1, FALSE).again

\* C20: runTasks ends on every task list (a task changes state at most
\* three times in runTasks, so there are at most 3 * #tasks + 1 passes); it
\* runs one pass when that pass changes nothing; when it returns, a further
\* pass would change nothing (or the root is DONE); and it does nothing when
\* the cluster is not EXECUTING.
C20_RunTasksTerminates ==
    RunTasksContract(World, RunTasks(World))

\* C20 witness: a runTasks is about to run that needs three passes
C20_Witness ==
    /\ Executing /\ queue # <<>> /\ Head(queue).h = "runTasks"
    /\ RunTasks(Handled(World)).passes >= 3


(***************************************************************************)
(* C21..C30                                                                *)
(***************************************************************************)
\* position of a component in the walk of forAllComponents
PosOf(c) == CHOOSE i \in 1..Len(AllComponents) : AllComponents[i] = c

\* the names a component declares in depends
NamesIn(c) == {tree[c].depends[k] : k \in 1..Len(tree[c].depends)}

\* the edge scanDependencies adds for "c needs m": c -> m when creating,
\* m -> c when removing
ScanEdge(c, m) ==
    IF Mode = "REMOVE" THEN InSeq(c, dependsOn[m]) ELSE InSeq(m, dependsOn[c])

\* c needs m: m is the Namespace component of c's namespace, or c names m
Needs(c, m) ==
    \/ m = NsComponent(GetNamespace(c))
    \/ tree[m].name \in NamesIn(c)

OwnNamespaceTree ==
    \E ns \in Comps : /\ KindOf(ns) = "Namespace"
                      /\ tree[ns].nsName = GetNamespace(ns)

\* C22: scanning a tree that contains a Namespace component whose own
\* namespace equals its metadata name adds no self-edge and does not fail
\* with a self-dependency error.
C22_NoNamespaceSelfEdge ==
    (pc # "init" /\ OwnNamespaceTree) =>
        /\ prepError # "Cannot depend on myself!"
        /\ \A c \in Comps : ~InSeq(c, dependsOn[c])

\* key is an initial part of str
HasPrefix(str, key) ==
    /\ Len(str) >= Len(key)
    /\ \A i \in 1..Len(key) : str[i] = key[i]

\* e tells that a pod of Deployment c was created
PodCreatedFor(c, e) ==
    /\ e.kind = "Pod"
    /\ e.reason = "Created"
    /\ e.ns = ConfigNs
    /\ HasPrefix(e.objName, tree[c].name \o <<"-">>)
    /\ HasPrefix(e.evName, tree[c].name \o <<"-">>)

\* what processEvent does to a monitoring Deployment task t when it is handed
\* event e in world w: r is the world after the handler
MonitorContract(w, r, t, e) ==
    IF PodCreatedFor(Owner(t), e)
    THEN /\ r.pods[Owner(t)] = w.pods[Owner(t)] + 1
         /\ r.ts[t] = IF r.pods[Owner(t)] >= tree[Owner(t)].replicas
                      THEN T_DONE ELSE T_WAITING
    ELSE /\ r.pods[Owner(t)] = w.pods[Owner(t)]
         /\ r.ts[t] = w.ts[t]

\* the tasks of Deployment components in a deployment
DeploymentTasks ==
    IF Mode = "CREATE" /\ hasTasks
    THEN {t \in SeqRange(tasks) : KindOf(Owner(t)) = "Deployment"}
    ELSE {}

\* C23: a monitoring (WAITING) Deployment task becomes DONE exactly when the
\* number of matching events it has seen reaches the declared replicas: a
\* matching event (a Pod event whose involved-object name and event name
\* start with name + "-", in the Deployment's namespace, with reason
\* "Created") adds one to the count and makes the task DONE iff the count
\* has reached replicas; an event that fails any of the five tests changes
\* neither the count nor the task state; so a WAITING task has seen fewer
\* than replicas matching events and a task that got DONE has seen replicas.
C23_DeploymentMonitoring ==
    \A t \in DeploymentTasks :
        /\ tstate[t] = T_WAITING =>
               /\ podsStarted[Owner(t)] < tree[Owner(t)].replicas
               /\ \A e \in Events \cup NearMisses(Owner(t)) :
                      MonitorContract(World, ProcessEvent(World, e), t, e)
        /\ tstate[t] = T_DONE =>
               podsStarted[Owner(t)] = tree[Owner(t)].replicas

\* a Deployment with two replicas whose task is DONE after two pod events
C23_Witness ==
    \E t \in DeploymentTasks :
        /\ tree[Owner(t)].replicas = 2
        /\ tstate[t] = T_DONE
        /\ podsStarted[Owner(t)] = 2

\* C24: every event read from the events watch stream is posted to the
\* component tree's onEvent, which posts a processEvent that hands it to
\* every task's closure.
C24_WatchedEventsArePosted ==
    [][nevents' = nevents + 1 =>
          \E e \in Events : queue' = Append(queue, EventItem(e))]_vars

\* what a probe result means for the polling task, by mode
Classify(state) ==
    IF Mode = "REMOVE"
    THEN (IF state \in {"DONT_EXIST", "DONE"} THEN "done"
          ELSE IF state = "FAILED" THEN "failed" ELSE "again")
    ELSE (IF state \in {"READY", "DONE"} THEN "done"
          ELSE IF state = "FAILED" THEN "failed" ELSE "again")

\* r is the world after the probe callback of task t ran in world w
ProbeContract(w, r, t, state) ==
    /\ Classify(state) = "done" => r.ts[t] = T_DONE
    /\ Classify(state) = "failed" => r.ts[t] = T_FAILED
    /\ Classify(state) = "again" =>
           /\ r.ts[t] = w.ts[t]
           /\ r.q = Append(w.q, PollItem(t))

\* C25: on each probe result the polling task reacts by mode.  In CREATE
\* mode READY or DONE sets the task DONE, FAILED sets it FAILED, DONT_EXIST
\* or INIT schedules another poll; in REMOVE mode DONT_EXIST or DONE sets
\* the task DONE, FAILED sets it FAILED, any other result schedules another
\* poll.  Polling so goes on until a result classified DONE or FAILED.
C25_ProbeResultByMode ==
    \A t \in 1..Len(tree) :
        probing[t] > 0 =>
            \A state \in K8ObjectStates :
                ProbeContract(World, ProbeCallback(World, t, state), t, state)

\* a removal with a probe of a polling task in flight
C25_Witness ==
    /\ Mode = "REMOVE"
    /\ \E t \in 1..Len(tree) : probing[t] > 0 /\ tstate[t] < T_DONE

\* r is the world after sendDelete's request for task t ended with outcome
\* in world w
DeleteContract(w, r, t, outcome) ==
    IF outcome \in {"ok", "404"}
    THEN /\ r.ts[t] = T_DONE
         /\ r.cs[Owner(t)] # C_FAILED
    ELSE IF ignoreErrors
    THEN r.ts[t] = T_DONE
    ELSE /\ r.ts[t] = T_FAILED
         /\ r.cs[Owner(t)] = C_FAILED

\* C26: sendDelete ends the task as follows: a 2xx reply or an HTTP 404 error
\* sets the task DONE, whatever ignoreErrors is, and leaves the component
\* not FAILED; any other error sets the task DONE when ignoreErrors is true,
\* and sets the task FAILED and the owning component FAILED when it is false.
C26_SendDeleteOutcome ==
    (Mode = "REMOVE" /\ hasTasks) =>
        \A t \in SeqRange(tasks) :
            http[t] > 0 =>
                \A outcome \in {"ok", "404", "error"} :
                    DeleteContract(World, DeleteReply(World, t, outcome),
                                   t, outcome)

\* r is the world after sendDelete's request for task t ended with outcome
\* in world w; the component may be FAILED afterwards only when it was
\* FAILED before or one of its children is FAILED
DeleteContractAmended(w, r, t, outcome) ==
    IF outcome \in {"ok", "404"}
    THEN /\ r.ts[t] = T_DONE
         /\ r.cs[Owner(t)] = C_FAILED =>
                \/ w.cs[Owner(t)] = C_FAILED
                \/ \E k \in ChildSet(Owner(t)) : w.cs[k] = C_FAILED
    ELSE IF ignoreErrors
    THEN r.ts[t] = T_DONE
    ELSE /\ r.ts[t] = T_FAILED
         /\ r.cs[Owner(t)] = C_FAILED

\* C26 (amended): a 2xx reply or an HTTP 404 error sets the task DONE,
\* whatever ignoreErrors is, and sendDelete does not set the component
\* FAILED: the component is FAILED afterwards only if it was FAILED before
\* or the evaluation the state change triggers finds a FAILED child; any
\* other error sets the task DONE when ignoreErrors is true, and sets the
\* task FAILED and the owning component FAILED when it is false.
C26_SendDeleteOutcomeAmended ==
    (Mode = "REMOVE" /\ hasTasks) =>
        \A t \in SeqRange(tasks) :
            http[t] > 0 =>
                \A outcome \in {"ok", "404", "error"} :
                    DeleteContractAmended(World,
                                          DeleteReply(World, t, outcome),
                                          t, outcome)

\* a removal with the DELETE request of a component in flight while a child
\* of the component has FAILED
C26_Witness ==
    /\ Mode = "REMOVE" /\ hasTasks /\ ~ignoreErrors
    /\ \E t \in SeqRange(tasks) :
           /\ http[t] > 0 /\ tstate[t] = T_EXECUTING
           /\ cstate[Owner(t)] # C_FAILED
           /\ \E k \in ChildSet(Owner(t)) : cstate[k] = C_FAILED

\* r is the world after the reply handler of the POST of task t ran in
\* world w; ok tells whether the POST succeeded
PostContract(w, r, t, ok) ==
    IF ~ok
    THEN r.ts[t] = T_FAILED /\ r.cs[Owner(t)] = C_FAILED
    ELSE IF KindOf(Owner(t)) = "Service"
    THEN w.ts[t] = T_EXECUTING /\ r.ts[t] = T_DONE
    ELSE w.ts[t] # T_EXECUTING /\ r.ts[t] = w.ts[t]

\* C27: when the POST of a Deployment or Service task fails, the task becomes
\* FAILED and its component becomes FAILED; when a Service POST succeeds the
\* task goes from EXECUTING directly to DONE; a Deployment task has left
\* EXECUTING for WAITING before the reply arrives and a successful reply
\* does not change its state.
C27_PostReply ==
    (Mode = "CREATE" /\ hasTasks) =>
        \A t \in SeqRange(tasks) :
            (http[t] > 0 /\ KindOf(Owner(t)) \in {"Deployment", "Service"}) =>
                \A ok \in BOOLEAN :
                    PostContract(World,
                                 ReplyHandler(World, t,
                                              IF ok THEN "ok" ELSE "error"),
                                 t, ok)

\* a deployment with the POST of a Deployment (its task WAITING) and the
\* POST of a Service (its task EXECUTING) in flight
C27_Witness ==
    /\ Mode = "CREATE" /\ hasTasks
    /\ \E t \in SeqRange(tasks) : \E u \in SeqRange(tasks) :
           /\ KindOf(Owner(t)) = "Deployment" /\ http[t] > 0
           /\ tstate[t] = T_WAITING
           /\ KindOf(Owner(u)) = "Service" /\ http[u] > 0
           /\ tstate[u] = T_EXECUTING

\* the nodes of the path of c, from the root down to c
RootDown(c) ==
    [i \in 1..Len(GetPathToRoot(c)) |->
        GetPathToRoot(c)[Len(GetPathToRoot(c)) + 1 - i]]

\* the values of key k along a sequence of nodes, for the nodes that have it
RECURSIVE DefaultsOf(_, _)
DefaultsOf(nodes, k) ==
    IF nodes = <<>> THEN <<>>
    ELSE (IF k \in DOMAIN tree[Head(nodes)].defaultArgs
          THEN <<tree[Head(nodes)].defaultArgs[k]>> ELSE <<>>)
         \o DefaultsOf(Tail(nodes), k)

\* the local value of key k of component c, if any
LocalOf(c, k) ==
    IF k \in DOMAIN tree[c].args THEN <<tree[c].args[k]>> ELSE <<>>

\* the non-empty parts joined by single spaces
RECURSIVE JoinNonEmpty(_)
JoinNonEmpty(parts) ==
    IF parts = <<>> THEN <<>>
    ELSE IF Head(parts) = <<>> THEN JoinNonEmpty(Tail(parts))
    ELSE IF JoinNonEmpty(Tail(parts)) = <<>> THEN Head(parts)
    ELSE Head(parts) \o <<" ">> \o JoinNonEmpty(Tail(parts))

\* C28: for the keys pod.args and pod.env the merged value is the local args
\* value followed by the defaultArgs values of the path ordered from the
\* root down to the nearest node, joined by single spaces, with spaces only
\* between non-empty parts.
C28_AccumulatedRootDown ==
    pc = "merged" =>
        \A c \in Comps : \A k \in Accumulated :
            k \in DOMAIN effectiveArgs[c] =>
                effectiveArgs[c][k] =
                    JoinNonEmpty(LocalOf(c, k) \o DefaultsOf(RootDown(c), k))

\* the first value of key k on the path from c up to the root
NearestDefault(c, k) == Head(DefaultsOf(GetPathToRoot(c), k))

\* C29: for every key other than pod.args and pod.env the merged value is
\* the local args value when there is one, otherwise the defaultArgs value
\* of the closest node on the path from the node up to the root that
\* defines the key; a farther ancestor never overrides it; a key nobody
\* defines is not in the result.
C29_NearestDefaultWins ==
    pc = "merged" =>
        \A c \in Comps : \A k \in ConfKeys \ Accumulated :
            IF k \in DOMAIN tree[c].args
            THEN k \in DOMAIN effectiveArgs[c]
                 /\ effectiveArgs[c][k] = tree[c].args[k]
            ELSE IF DefaultsOf(GetPathToRoot(c), k) # <<>>
            THEN k \in DOMAIN effectiveArgs[c]
                 /\ effectiveArgs[c][k] = NearestDefault(c, k)
            ELSE k \notin DOMAIN effectiveArgs[c]

\* a component without a local image whose parent and whose root both give
\* a default: the parent's value is the merged one
C29_Witness ==
    /\ pc = "merged"
    /\ \E c \in Comps :
           /\ ~IsRoot(c) /\ ~IsRoot(Parent(c))
           /\ "image" \notin DOMAIN tree[c].args
           /\ "image" \notin DOMAIN tree[c].defaultArgs
           /\ "image" \in DOMAIN tree[Parent(c)].defaultArgs
           /\ "image" \in DOMAIN tree[Root].defaultArgs
           /\ effectiveArgs[c]["image"] = tree[Parent(c)].name

\* what the token ${name,default} stands for when the map is looked at
\* first, then the token's default, then the environment
ResolveDefaultFirst(name, default) ==
    IF name \in DOMAIN variables THEN variables[name]
    ELSE IF default # NoDefault THEN default
    ELSE IF name \in DOMAIN environ THEN environ[name]
    ELSE <<>>

\* C30: expandVariables resolves a token ${name,default} in the order: the
\* value of the variable map if name is in it; otherwise the token's
\* default; otherwise (no default) the environment variable name; otherwise
\* the empty string.
C30_ResolutionOrder ==
    pc = "expanded" =>
        \A n \in {PORT, NameQ} : \A d \in PlainDefaults \cup {NoDefault} :
            json = Token(n, d) =>
                /\ expanded.err = ""
                /\ expanded.str = ResolveDefaultFirst(n, d)

(***************************************************************************)
(* C31..C40                                                                *)
(***************************************************************************)
\* the text holds the start of a token, "${"
HasToken(text) ==
    \E i \in 1..(Len(text) - 1) : text[i] = "$" /\ text[i + 1] = "{"

\* C31: variable expansion is idempotent on its own output: when
\* expandVariables succeeds and its output holds no ${...} token, expanding
\* the output again succeeds and gives the same text, also for inputs that
\* escape $ with a backslash.
C31_ExpansionIdempotent ==
    (pc = "expanded" /\ expanded.err = "" /\ ~HasToken(expanded.str)) =>
        ExpandVariables(expanded.str) = expanded

\* C33: when the default of a token has the form $ENVVAR and the environment
\* defines ENVVAR, the default used for the expansion is the complete value
\* of that environment variable.
C33_DefaultFromEnvironment ==
    (/\ pc = "expanded"
     /\ json = Token(PORT, <<"$">> \o NameQ)
     /\ PORT \notin DOMAIN variables
     /\ PORT \notin DOMAIN environ
     /\ NameQ \in DOMAIN environ) =>
        expanded = [str |-> environ[NameQ], err |-> ""]

\* the tokens of a text when a quote ends only a token that a quote opened
\* and white space ends only a token that no quote opened; r is the list so
\* far, v the token that was begun, q whether a quote opened it, open
\* whether a token was begun
RECURSIVE Tokens(_, _, _, _, _, _)
Tokens(text, i, r, v, q, open) ==
    IF i > Len(text) THEN (IF v # <<>> THEN Append(r, v) ELSE r)
    ELSE IF ~open
    THEN (IF text[i] \in {" ", "\t", "\r", "\n"}
          THEN Tokens(text, i + 1, r, v, FALSE, FALSE)
          ELSE IF text[i] = "'" THEN Tokens(text, i + 1, r, v, TRUE, TRUE)
          ELSE Tokens(text, i + 1, r, <<text[i]>>, FALSE, TRUE))
    ELSE IF q
    THEN (IF text[i] = "'"
          THEN Tokens(text, i + 1, Append(r, v), <<>>, FALSE, FALSE)
          ELSE Tokens(text, i + 1, r, Append(v, text[i]), TRUE, TRUE))
    ELSE (IF text[i] \in {" ", "\t", "\r", "\n"}
          THEN Tokens(text, i + 1, Append(r, v), <<>>, FALSE, FALSE)
          ELSE Tokens(text, i + 1, r, Append(v, text[i]), FALSE, TRUE))

\* C32: getArgAsStringList splits on white space outside quotes only: a
\* single quote ends a token only when a single quote opened it, white space
\* ends a token only when it is unquoted, an unterminated quoted token is
\* closed at the end of the input; a quote inside an unquoted token does not
\* split it.
C32_SplitOutsideQuotes ==
    pc = "listed" => rval = Tokens(values, 1, <<>>, <<>>, FALSE, FALSE)

\* Cluster::name(): name_ = variables_["name"]
ClusterName == clusterVariables[NameKey]

\* C34: for an argument kubeconfig[:k1=v1,...] that does not set the variable
\* name, the cluster name is the basename of the kubeconfig path (without
\* directories) up to its first '.', and "default" when that is empty; when
\* name=v is given with a non-empty v, the cluster name is v.
C34_ClusterName ==
    pc = "parsed" =>
        \A p \in KubeconfigPaths :
            /\ clusterArg = p[1] =>
                   ClusterName = IF p[2] = <<>> THEN DefaultName ELSE p[2]
            /\ \A v \in VariableLists :
                   clusterArg = p[1] \o <<":">> \o v[1] =>
                       ClusterName = IF v[2] # <<>> THEN v[2]
                                     ELSE IF p[2] = <<>> THEN DefaultName
                                     ELSE p[2]

\* C35: each task issues its HTTP operation at most once per run: the
\* operation is issued only for a task that has not yet left READY, a task
\* that has left READY never is READY again, and no step of the executor
\* (runTasks pass, event closure, reply or probe handler) issues it a second
\* time.
C35_ExecutedAtMostOnce ==
    [][\A t \in 1..Len(tree) :
          /\ nexec'[t] <= 1
          /\ nexec'[t] > nexec[t] => tstate[t] <= T_READY
          /\ tstate[t] > T_READY => tstate'[t] # T_READY]_vars

\* a Deployment whose task was executed once and is DONE after the events of
\* its pods were handed to its closure
C35_Witness ==
    /\ Mode = "CREATE" /\ hasTasks
    /\ \E t \in SeqRange(tasks) :
           /\ KindOf(Owner(t)) = "Deployment"
           /\ nexec[t] = 1 /\ tstate[t] = T_DONE
           /\ podsStarted[Owner(t)] >= 1

\* a deployment has come to rest, no request, probe or task has failed and
\* no task still waits for an event or a probe result
SuccessfulRest ==
    /\ Quiescent
    /\ Mode = "CREATE"
    /\ \A t \in TaskSet : tstate[t] \notin {T_WAITING, T_ABORTED, T_FAILED,
                                            T_DEPENDENCY_FAILED}
    /\ \A c \in Comps : cstate[c] # C_FAILED

\* C36: no deadlock between the two graphs in CREATE mode: for every
\* configuration both cycle checks accept, when every request succeeds and
\* every awaited event or probe result has arrived, the run does not come to
\* rest before every task is DONE and the root is DONE.
C36_NoDeadlockInCreate ==
    SuccessfulRest =>
        /\ \A t \in TaskSet : tstate[t] = T_DONE
        /\ cstate[Root] = C_DONE


\* C37: a component never leaves a terminal state: once its state is DONE or
\* FAILED no step of the engine changes it to any other state.
C37_TerminalIsFinal ==
    [][\A c \in 1..Len(tree) :
          cstate[c] \in {C_DONE, C_FAILED} => cstate'[c] = cstate[c]]_vars


RECURSIVE SelfAndAncestors(_)
SelfAndAncestors(c) ==
    IF c = 0 THEN {} ELSE {c} \cup SelfAndAncestors(tree[c].parent)

\* the components that the subtree holding component c has to wait for
AwaitedBy(c) ==
    UNION {SeqRange(dependsOn[b]) : b \in SelfAndAncestors(c)}

\* C38: in CREATE mode a depends declaration orders the whole subtree: when B
\* has a dependsOn edge to A, no task owned by B or by a descendant of B is
\* executed in a step before and after which A is not DONE.
C38_DependsOrdersSubtree ==
    [][Mode = "CREATE" =>
          \A t \in 1..Len(tree) :
              nexec'[t] > nexec[t] =>
                  \A a \in AwaitedBy(t) :
                      cstate[a] = C_DONE \/ cstate'[a] = C_DONE]_vars


\* C39: execute() cannot lose the completion: the promise is installed before
\* the root can be set to DONE (the root is never DONE between the two
\* statements of execute()), so that a root that is DONE has fulfilled the
\* future or still holds the installed promise of a later state change.
C39_PromiseInstalledBeforeDone ==
    /\ pc = "posted" => cstate[Root] # C_DONE
    /\ (pc = "running" /\ cstate[Root] = C_DONE) => nfulfil > 0


\* C40: a task has at most one pending poll timer at any time: the lambda of
\* schedulePoll creates a timer only when none is pending, a firing clears
\* the timer and starts exactly one probe, and running the lambda any number
\* of times between two firings leaves the one timer it found or created.
C40_OnePendingPollTimer ==
    [][\A t \in 1..Len(tree) :
          /\ pollTimer[t] <= 1 /\ pollTimer'[t] <= 1
          /\ pollTimer'[t] > pollTimer[t] => pollTimer[t] = 0
          /\ probing'[t] > probing[t] =>
                /\ pollTimer[t] = 1 /\ pollTimer'[t] = 0
                /\ probing'[t] = probing[t] + 1
          /\ PollLambda(World, t).timer[t] = 1
          /\ PollLambda(PollLambda(World, t), t) = PollLambda(World, t)]_vars

\* C40 witness: the timer of a waiting task is pending, so that the lambda of
\* a further schedulePoll call finds it
C40_Witness ==
    \E t \in 1..Len(tree) :
        /\ pollTimer[t] = 1
        /\ tstate[t] = T_WAITING
        /\ PollLambda(World, t) = World

====
